---- MODULE Spec2Model ----
(***************************************************************************)
(* RMA (Return Merchandise Authorization) workflow of src/rma/manager.py.  *)
(* The relational store is modelled table by table; every RMAManager       *)
(* method is a function from the database before the call to the database  *)
(* after its final commit, and one action applies it.  A call that raises  *)
(* before its first write leaves the store untouched and is therefore a    *)
(* disabled action.                                                        *)
(***************************************************************************)
EXTENDS Integers, Sequences, FiniteSets, TLC

VARIABLES
  rma_requests,      \* table rma_requests: sequence of rows, id = index
  rma_items,         \* table rma_items, grouped by rma_id
  rma_activity_log,  \* table rma_activity_log, grouped by rma_id, in insertion order
  notifications,     \* table notifications, grouped by rma_id, in insertion order
  refunds,           \* table refunds: sequence of rows, id = index
  sale,              \* table sale: sequence of rows, id = index
  sale_item,         \* table sale_item: sequence of rows
  product,           \* table product: sequence of rows, id = index
  rma_metrics,       \* table rma_metrics: metric_date -> counters
  now,               \* the wall clock, in days
  status_trace,      \* per rma_id, every value written to rma_requests.status, in order
  conn,              \* per connection, the request it is in the middle of
  notification_raises, \* whether NotificationService.create_rma_status_notification raises
  breaker,           \* the CircuitBreaker object: state, failure_count, success_count, last_failure_time
  clock,             \* datetime.now() as the breaker reads it, in seconds
  thread             \* per thread, its position in CircuitBreaker.call and how its last call ended

vars == <<rma_requests, rma_items, rma_activity_log, notifications, refunds,
          sale, sale_item, product, rma_metrics, now, status_trace, conn,
          notification_raises, breaker, clock, thread>>

-----------------------------------------------------------------------------
(* Bounds of the model *)

MaxRma == 2
MaxLog == 11
MaxSales == 3
MaxRefunds == 2

-----------------------------------------------------------------------------
(* Values *)

NULL == "NULL"
NullInt == -1
NoNumber == <<>>
TS == "CURRENT_TIMESTAMP"

WarrantyDays == 30
TickDays == 30
InitNow == 40
MaxNow == 70

Users == {1, 2}
Amounts == {1999}

Statuses == {"SUBMITTED", "APPROVED", "REJECTED", "SHIPPING", "RECEIVED", "INSPECTING",
             "INSPECTED", "DISPOSITION", "PROCESSING", "COMPLETED", "CANCELLED"}
Terminal == {"COMPLETED", "REJECTED", "CANCELLED"}
valid_dispositions == {"REFUND", "REPLACEMENT", "REPAIR", "REJECT", "STORE_CREDIT"}
valid_results == {"DEFECTIVE", "MISUSE", "NORMAL_WEAR", "AS_DESCRIBED"}
InspectionInputs == {"DEFECTIVE"}
\* what a caller may pass as carrier and tracking number; Carriers and TrackingNumbers
\* are the values the routes let through
Carriers == {"UPS"}
TrackingNumbers == {"1Z1"}
AnyCarrier == Carriers \cup {""}
AnyTrackingNumber == TrackingNumbers \cup {""}
notify_statuses_WithShipping ==
  {"SUBMITTED", "APPROVED", "REJECTED", "SHIPPING", "RECEIVED", "INSPECTING", "INSPECTED",
   "DISPOSITION", "PROCESSING", "COMPLETED", "CANCELLED"}

notify_statuses == {"SUBMITTED", "APPROVED", "REJECTED", "RECEIVED", "INSPECTING",
                    "INSPECTED", "DISPOSITION", "PROCESSING", "COMPLETED", "CANCELLED"}

Item(p, q) == [product_id |-> p, quantity |-> q]
\* the lines a customer returns from a sale: sale 2 returns its two units of product 1
\* as separate lines (each rma_items row has its own reason)
ItemChoices(sale_id) ==
  IF sale_id = 2 THEN { <<Item(1, 1), Item(2, 1), Item(1, 1)>> } ELSE { <<Item(1, 2)>> }

Bool2Int(b) == IF b THEN 1 ELSE 0

-----------------------------------------------------------------------------
(* The database as one value *)

DB == [rma_requests |-> rma_requests, rma_items |-> rma_items,
       rma_activity_log |-> rma_activity_log, notifications |-> notifications,
       refunds |-> refunds, sale |-> sale, sale_item |-> sale_item,
       product |-> product, rma_metrics |-> rma_metrics,
       status_trace |-> status_trace, notification_raises |-> notification_raises]

Commit(db) ==
  /\ rma_requests' = db.rma_requests
  /\ rma_items' = db.rma_items
  /\ rma_activity_log' = db.rma_activity_log
  /\ notifications' = db.notifications
  /\ refunds' = db.refunds
  /\ sale' = db.sale
  /\ sale_item' = db.sale_item
  /\ product' = db.product
  /\ rma_metrics' = db.rma_metrics
  /\ status_trace' = db.status_trace
  /\ notification_raises' = db.notification_raises

RmaIds(db) == 1..Len(db.rma_requests)

RECURSIVE SumLen(_, _)
SumLen(tab, n) == IF n = 0 THEN 0 ELSE Len(tab[n]) + SumLen(tab, n - 1)

LogRows(db) == SumLen(db.rma_activity_log, Len(db.rma_activity_log))
CanLog(db, n) == LogRows(db) + n <= MaxLog

-----------------------------------------------------------------------------
(* Helper methods *)

_get_rma(db, rma_id) == db.rma_requests[rma_id]

RmaExists(db, rma_id) == rma_id \in RmaIds(db)

\* UPDATE rma_requests SET ... WHERE id = rma_id, cols a record of the columns set
UpdateRma(db, rma_id, cols) ==
  LET old == db.rma_requests[rma_id]
      new == [c \in DOMAIN old |-> IF c \in DOMAIN cols THEN cols[c] ELSE old[c]]
  IN [db EXCEPT !.rma_requests[rma_id] = new,
                !.status_trace[rma_id] =
                   IF "status" \in DOMAIN cols THEN Append(@, cols.status) ELSE @]

NotificationService_create_rma_status_notification(db, user_id, rma_id, rma_number, old_status, new_status, disposition) ==
  [db EXCEPT !.notifications[rma_id] =
     Append(@, [user_id |-> user_id, rma_number |-> rma_number,
                old_status |-> old_status, new_status |-> new_status,
                disposition |-> disposition])]

_log_activity_LosesEntryOnNotificationFailure(db, rma_id, action, old_status, new_status) ==
  LET db1 == [db EXCEPT !.rma_activity_log[rma_id] =
                Append(@, [action |-> action, old_status |-> old_status,
                           new_status |-> new_status])]
      rma == db1.rma_requests[rma_id]
  IN IF new_status # NULL /\ new_status # old_status /\ new_status \in notify_statuses
     THEN IF db1.notification_raises
          THEN db
          ELSE NotificationService_create_rma_status_notification(
                 db1, rma.user_id, rma_id, rma.rma_number, old_status, new_status, rma.disposition)
     ELSE db1

_log_activity_OverwritesLast(db, rma_id, action, old_status, new_status) ==
  LET e == [action |-> action, old_status |-> old_status, new_status |-> new_status]
      db1 == [db EXCEPT !.rma_activity_log[rma_id] =
                IF @ = <<>> THEN <<e>> ELSE [@ EXCEPT ![Len(@)] = e]]
      rma == db1.rma_requests[rma_id]
  IN IF new_status # NULL /\ new_status # old_status /\ new_status \in notify_statuses
     THEN IF db1.notification_raises
          THEN db1   \* except Exception: print a warning and carry on
          ELSE NotificationService_create_rma_status_notification(
                 db1, rma.user_id, rma_id, rma.rma_number, old_status, new_status, rma.disposition)
     ELSE db1

_log_activity(db, rma_id, action, old_status, new_status) ==
  LET db1 == [db EXCEPT !.rma_activity_log[rma_id] =
                Append(@, [action |-> action, old_status |-> old_status,
                           new_status |-> new_status])]
      rma == db1.rma_requests[rma_id]
  IN IF new_status # NULL /\ new_status # old_status /\ new_status \in notify_statuses
     THEN IF db1.notification_raises
          THEN db1   \* except Exception: print a warning and carry on
          ELSE NotificationService_create_rma_status_notification(
                 db1, rma.user_id, rma_id, rma.rma_number, old_status, new_status, rma.disposition)
     ELSE db1

_notify_customer_Silent(db, rma_id, notification_type) == db

_notify_customer(db, rma_id, notification_type) ==
  _log_activity(db, rma_id, "CUSTOMER_NOTIFIED", NULL, NULL)

CountNumbered(rows, day, n) ==
  Cardinality({i \in 1..n : rows[i].rma_number # NoNumber /\ rows[i].rma_number[1] = day})

_generate_rma_number(db, today) ==
  <<today, CountNumbered(db.rma_requests, today, Len(db.rma_requests)) + 1>>

_check_warranty_Inclusive(db, sale_id, t) ==
  IF sale_id \notin 1..Len(db.sale) THEN FALSE
  ELSE t <= db.sale[sale_id].sale_time + WarrantyDays

_check_warranty(db, sale_id, t) ==
  IF sale_id \notin 1..Len(db.sale) THEN FALSE
  ELSE t < db.sale[sale_id].sale_time + WarrantyDays

_check_purchase_date(db, sale_id, t) ==
  IF sale_id \notin 1..Len(db.sale) THEN FALSE
  ELSE db.sale[sale_id].sale_time < t

_update_metrics(db, rma_id, today) ==
  IF today \in DOMAIN db.rma_metrics
  THEN [db EXCEPT !.rma_metrics[today] =
          [total_requests |-> @.total_requests + 1,
           completed_requests |-> @.completed_requests + 1]]
  ELSE [db EXCEPT !.rma_metrics =
          [d \in DOMAIN @ \cup {today} |->
             IF d = today THEN [total_requests |-> 1, completed_requests |-> 1] ELSE @[d]]]

-----------------------------------------------------------------------------
(* STEP 1: submission *)

ActiveRmaForSale(db, sale_id) ==
  \E i \in RmaIds(db) : /\ db.rma_requests[i].sale_id = sale_id
                        /\ db.rma_requests[i].status \notin {"REJECTED", "CANCELLED", "COMPLETED"}

submit_rma_request_ok_AnySaleStatus(db, sale_id, user_id) ==
  /\ sale_id \in 1..Len(db.sale)
  /\ db.sale[sale_id].user_id = user_id
  /\ ~ActiveRmaForSale(db, sale_id)

submit_rma_request_ok(db, sale_id, user_id) ==
  /\ sale_id \in 1..Len(db.sale)
  /\ db.sale[sale_id].user_id = user_id
  /\ db.sale[sale_id].status = "COMPLETED"
  /\ ~ActiveRmaForSale(db, sale_id)

NewRma(sale_id, user_id) ==
  [sale_id |-> sale_id, user_id |-> user_id, status |-> "SUBMITTED",
   rma_number |-> NoNumber, disposition |-> NULL,
   is_eligible |-> NullInt, warranty_valid |-> NullInt, purchase_date_valid |-> NullInt,
   validated_at |-> NULL, shipping_carrier |-> NULL, tracking_number |-> NULL,
   shipped_at |-> NULL, received_at |-> NULL,
   inspection_result |-> NULL, inspected_at |-> NULL, disposition_at |-> NULL,
   refund_amount_cents |-> NullInt, closed_at |-> NULL]

submit_rma_request_db(db, sale_id, user_id, items) ==
  LET rma_id == Len(db.rma_requests) + 1
      db1 == [db EXCEPT !.rma_requests = Append(@, NewRma(sale_id, user_id)),
                        !.rma_items = Append(@, items),
                        !.rma_activity_log = Append(@, <<>>),
                        !.notifications = Append(@, <<>>),
                        !.status_trace = Append(@, <<"SUBMITTED">>)]
  IN _log_activity(db1, rma_id, "SUBMITTED", NULL, "SUBMITTED")

submit_rma_request(sale_id, user_id, items) ==
  /\ Len(rma_requests) < MaxRma
  /\ submit_rma_request_ok(DB, sale_id, user_id)
  /\ CanLog(DB, 1)
  /\ Commit(submit_rma_request_db(DB, sale_id, user_id, items))
  /\ UNCHANGED <<now, conn, breaker, clock, thread>>

-----------------------------------------------------------------------------
(* STEP 2: validation *)

validate_new_status_IgnoreEligibility(db, rma_id, approve, check_warranty, check_purchase_date, t) ==
  LET rma == _get_rma(db, rma_id)
      warranty_valid == IF check_warranty THEN _check_warranty(db, rma.sale_id, t) ELSE TRUE
      purchase_date_valid ==
        IF check_purchase_date THEN _check_purchase_date(db, rma.sale_id, t) ELSE TRUE
      is_eligible == warranty_valid /\ purchase_date_valid
  IN [warranty_valid |-> warranty_valid, purchase_date_valid |-> purchase_date_valid,
      is_eligible |-> is_eligible,
      new_status |-> IF approve THEN "APPROVED" ELSE "REJECTED",
      returns |-> approve /\ is_eligible]

validate_new_status(db, rma_id, approve, check_warranty, check_purchase_date, t) ==
  LET rma == _get_rma(db, rma_id)
      warranty_valid == IF check_warranty THEN _check_warranty(db, rma.sale_id, t) ELSE TRUE
      purchase_date_valid ==
        IF check_purchase_date THEN _check_purchase_date(db, rma.sale_id, t) ELSE TRUE
      is_eligible == warranty_valid /\ purchase_date_valid
  IN [warranty_valid |-> warranty_valid, purchase_date_valid |-> purchase_date_valid,
      is_eligible |-> is_eligible,
      new_status |-> IF approve /\ is_eligible THEN "APPROVED" ELSE "REJECTED",
      returns |-> approve /\ is_eligible]

validate_rma_request_ok(db, rma_id) ==
  /\ RmaExists(db, rma_id)
  /\ _get_rma(db, rma_id).status = "SUBMITTED"

validate_rma_request_db_NumberOnReject(db, rma_id, approve, check_warranty, check_purchase_date, t) ==
  LET rma == _get_rma(db, rma_id)
      v == validate_new_status(db, rma_id, approve, check_warranty, check_purchase_date, t)
      rma_number_to_set ==
        IF rma.rma_number = NoNumber THEN _generate_rma_number(db, t) ELSE NoNumber
      cols == [status |-> v.new_status, validated_at |-> TS,
               is_eligible |-> Bool2Int(v.is_eligible),
               warranty_valid |-> Bool2Int(v.warranty_valid),
               purchase_date_valid |-> Bool2Int(v.purchase_date_valid)]
      db1 == IF rma_number_to_set # NoNumber
             THEN UpdateRma(db, rma_id, cols @@ [rma_number |-> rma_number_to_set])
             ELSE UpdateRma(db, rma_id, cols)
  IN _log_activity(db1, rma_id, "VALIDATED", "SUBMITTED", v.new_status)

\* what validate_rma_request has decided from its SELECTs before it writes: the
\* eligibility, the new status and the number to set
validate_rma_request_read(db, rma_id, approve, check_warranty, check_purchase_date, t) ==
  LET rma == _get_rma(db, rma_id)
      v == validate_new_status(db, rma_id, approve, check_warranty, check_purchase_date, t)
  IN [v |-> v,
      rma_number_to_set |->
        IF v.new_status = "APPROVED" /\ rma.rma_number = NoNumber
        THEN _generate_rma_number(db, t) ELSE NoNumber]

\* the UPDATE and the ledger entry of validate_rma_request, from what was decided
validate_rma_request_write(db, rma_id, decided) ==
  LET v == decided.v
      cols == [status |-> v.new_status, validated_at |-> TS,
               is_eligible |-> Bool2Int(v.is_eligible),
               warranty_valid |-> Bool2Int(v.warranty_valid),
               purchase_date_valid |-> Bool2Int(v.purchase_date_valid)]
      db1 == IF decided.rma_number_to_set # NoNumber
             THEN UpdateRma(db, rma_id, cols @@ [rma_number |-> decided.rma_number_to_set])
             ELSE UpdateRma(db, rma_id, cols)
  IN _log_activity(db1, rma_id, "VALIDATED", "SUBMITTED", v.new_status)

validate_rma_request_db(db, rma_id, approve, check_warranty, check_purchase_date, t) ==
  validate_rma_request_write(db, rma_id,
    validate_rma_request_read(db, rma_id, approve, check_warranty, check_purchase_date, t))

validate_rma_request(rma_id, approve, check_warranty, check_purchase_date) ==
  /\ validate_rma_request_ok(DB, rma_id)
  /\ CanLog(DB, 1)
  /\ Commit(validate_rma_request_db(DB, rma_id, approve, check_warranty, check_purchase_date, now))
  /\ UNCHANGED <<now, conn, breaker, clock, thread>>

-----------------------------------------------------------------------------
(* STEP 3: return shipping *)

update_shipping_info_ok(db, rma_id) ==
  /\ RmaExists(db, rma_id)
  /\ _get_rma(db, rma_id).status \in {"APPROVED", "SHIPPING"}

update_shipping_info_db_KeepsStatus(db, rma_id, carrier, tracking_number) ==
  LET rma == _get_rma(db, rma_id)
      db1 == UpdateRma(db, rma_id, [shipping_carrier |-> carrier,
                                    tracking_number |-> tracking_number, shipped_at |-> TS])
  IN _log_activity(db1, rma_id, "SHIPPING_UPDATED", rma.status, "SHIPPING")

update_shipping_info_db(db, rma_id, carrier, tracking_number) ==
  LET rma == _get_rma(db, rma_id)
      db1 == UpdateRma(db, rma_id, [status |-> "SHIPPING", shipping_carrier |-> carrier,
                                    tracking_number |-> tracking_number, shipped_at |-> TS])
  IN _log_activity(db1, rma_id, "SHIPPING_UPDATED", rma.status, "SHIPPING")

update_shipping_info(rma_id, carrier, tracking_number) ==
  /\ update_shipping_info_ok(DB, rma_id)
  /\ CanLog(DB, 1)
  /\ Commit(update_shipping_info_db(DB, rma_id, carrier, tracking_number))
  /\ UNCHANGED <<now, conn, breaker, clock, thread>>

mark_received_ok(db, rma_id) ==
  /\ RmaExists(db, rma_id)
  /\ _get_rma(db, rma_id).status = "SHIPPING"

mark_received_db_EveryShipped(db, rma_id) ==
  LET db1 == [db EXCEPT !.rma_requests =
                [i \in DOMAIN @ |-> IF @[i].status = "SHIPPING" \/ i = rma_id
                                    THEN [@[i] EXCEPT !.status = "RECEIVED", !.received_at = TS]
                                    ELSE @[i]],
                        !.status_trace[rma_id] = Append(@, "RECEIVED")]
  IN _log_activity(db1, rma_id, "RECEIVED", "SHIPPING", "RECEIVED")

mark_received_db(db, rma_id) ==
  LET db1 == UpdateRma(db, rma_id, [status |-> "RECEIVED", received_at |-> TS])
  IN _log_activity(db1, rma_id, "RECEIVED", "SHIPPING", "RECEIVED")

mark_received(rma_id) ==
  /\ mark_received_ok(DB, rma_id)
  /\ CanLog(DB, 1)
  /\ Commit(mark_received_db(DB, rma_id))
  /\ UNCHANGED <<now, conn, breaker, clock, thread>>

-----------------------------------------------------------------------------
(* STEP 4: inspection *)

start_inspection_ok_FromShipping(db, rma_id) ==
  /\ RmaExists(db, rma_id)
  /\ _get_rma(db, rma_id).status \in {"SHIPPING", "RECEIVED"}

start_inspection_ok(db, rma_id) ==
  /\ RmaExists(db, rma_id)
  /\ _get_rma(db, rma_id).status = "RECEIVED"

start_inspection_db(db, rma_id) ==
  LET db1 == UpdateRma(db, rma_id, [status |-> "INSPECTING"])
  IN _log_activity(db1, rma_id, "INSPECTION_STARTED", "RECEIVED", "INSPECTING")

start_inspection(rma_id) ==
  /\ start_inspection_ok(DB, rma_id)
  /\ CanLog(DB, 1)
  /\ Commit(start_inspection_db(DB, rma_id))
  /\ UNCHANGED <<now, conn, breaker, clock, thread>>

complete_inspection_ok(db, rma_id, result) ==
  /\ RmaExists(db, rma_id)
  /\ _get_rma(db, rma_id).status = "INSPECTING"
  /\ result \in valid_results

complete_inspection_db(db, rma_id, result) ==
  LET db1 == UpdateRma(db, rma_id, [status |-> "INSPECTED", inspection_result |-> result,
                                    inspected_at |-> TS])
  IN _log_activity(db1, rma_id, "INSPECTION_COMPLETED", "INSPECTING", "INSPECTED")

complete_inspection(rma_id, result) ==
  /\ complete_inspection_ok(DB, rma_id, result)
  /\ CanLog(DB, 1)
  /\ Commit(complete_inspection_db(DB, rma_id, result))
  /\ UNCHANGED <<now, conn, breaker, clock, thread>>

-----------------------------------------------------------------------------
(* STEP 5: disposition decision *)

make_disposition_ok_AlsoProcessing(db, rma_id, disposition) ==
  /\ RmaExists(db, rma_id)
  /\ _get_rma(db, rma_id).status \in {"INSPECTED", "DISPOSITION", "PROCESSING"}
  /\ disposition \in valid_dispositions

make_disposition_ok(db, rma_id, disposition) ==
  /\ RmaExists(db, rma_id)
  /\ _get_rma(db, rma_id).status \in {"INSPECTED", "DISPOSITION"}
  /\ disposition \in valid_dispositions

make_disposition_next_status_CreditWaits(disposition) ==
  IF disposition \in {"REFUND", "REPLACEMENT"} THEN "PROCESSING" ELSE "DISPOSITION"

make_disposition_next_status(disposition) ==
  IF disposition \in {"REFUND", "REPLACEMENT", "STORE_CREDIT"} THEN "PROCESSING" ELSE "DISPOSITION"

make_disposition_db(db, rma_id, disposition) ==
  LET next_status == make_disposition_next_status(disposition)
      db1 == UpdateRma(db, rma_id, [status |-> next_status, disposition |-> disposition,
                                    disposition_at |-> TS])
  IN _log_activity(db1, rma_id, "DISPOSITION_DECIDED", "INSPECTED", next_status)

make_disposition(rma_id, disposition) ==
  /\ make_disposition_ok(DB, rma_id, disposition)
  /\ CanLog(DB, 1)
  /\ Commit(make_disposition_db(DB, rma_id, disposition))
  /\ UNCHANGED <<now, conn, breaker, clock, thread>>

-----------------------------------------------------------------------------
(* STEP 6: refund / replacement / repair / store credit / rejection *)

RefundsOf(db, rma_id) == {i \in 1..Len(db.refunds) : db.refunds[i].rma_id = rma_id}

process_refund_ok(db, rma_id) ==
  /\ RmaExists(db, rma_id)
  /\ _get_rma(db, rma_id).disposition = "REFUND"
  /\ RefundsOf(db, rma_id) = {}

\* INSERT INTO refunds ... 'PENDING', then UPDATE rma_requests, then the ledger entry
process_refund_write(db, rma_id, amount_cents) ==
  LET rma == _get_rma(db, rma_id)
      db1 == [db EXCEPT !.refunds = Append(@, [rma_id |-> rma_id, sale_id |-> rma.sale_id,
                                               amount_cents |-> amount_cents,
                                               status |-> "PENDING"])]
      db2 == UpdateRma(db1, rma_id, [status |-> "PROCESSING",
                                     refund_amount_cents |-> amount_cents])
  IN _log_activity(db2, rma_id, "REFUND_INITIATED", "DISPOSITION", "PROCESSING")

process_refund_db(db, rma_id, amount_cents) == process_refund_write(db, rma_id, amount_cents)

process_refund(rma_id, amount_cents) ==
  /\ process_refund_ok(DB, rma_id)
  /\ CanLog(DB, 1)
  /\ Len(refunds) < MaxRefunds
  /\ Commit(process_refund_db(DB, rma_id, amount_cents))
  /\ UNCHANGED <<now, conn, breaker, clock, thread>>

\* UPDATE product SET stock = stock + delta WHERE id = product_id, one item after another
RECURSIVE AddStock(_, _, _, _)
AddStock(prod, items, n, sign) ==
  IF n = 0 THEN prod
  ELSE LET p == AddStock(prod, items, n - 1, sign)
           it == items[n]
       IN IF it.product_id \in 1..Len(p)
          THEN [p EXCEPT ![it.product_id].stock = @ + sign * it.quantity]
          ELSE p

_adjust_inventory_for_disposition_RefundOnly(db, rma_id, disposition) ==
  LET items == db.rma_items[rma_id]
  IN IF disposition \in {"REFUND"}
     THEN [db EXCEPT !.product = AddStock(@, items, Len(items), 1)]
     ELSE db

_adjust_inventory_for_disposition(db, rma_id, disposition) ==
  LET items == db.rma_items[rma_id]
  IN IF disposition \in {"REFUND", "STORE_CREDIT"}
     THEN [db EXCEPT !.product = AddStock(@, items, Len(items), 1)]
     ELSE db

complete_refund_ok(db, refund_id) ==
  /\ refund_id \in 1..Len(db.refunds)

complete_refund_db_ClosesOnFailure(db, refund_id, success) ==
  LET refund == db.refunds[refund_id]
      rma == _get_rma(db, refund.rma_id)
      status == IF success THEN "COMPLETED" ELSE "FAILED"
      db1 == [db EXCEPT !.refunds[refund_id].status = status]
  IN IF success
     THEN LET db2 == UpdateRma(db1, refund.rma_id, [status |-> "COMPLETED", closed_at |-> TS])
              db3 == IF refund.sale_id \in 1..Len(db2.sale)
                     THEN [db2 EXCEPT !.sale[refund.sale_id].status = "REFUNDED"]
                     ELSE db2
              db4 == _adjust_inventory_for_disposition(db3, refund.rma_id, rma.disposition)
              db5 == _log_activity(db4, refund.rma_id, "REFUND_COMPLETED", "PROCESSING", "COMPLETED")
          IN _notify_customer(db5, refund.rma_id, "COMPLETED_REFUND")
     ELSE LET db2 == UpdateRma(db1, refund.rma_id, [status |-> "COMPLETED", closed_at |-> TS])
          IN _log_activity(db2, refund.rma_id, "REFUND_FAILED", "PROCESSING", "PROCESSING")

\* The writes of a successful complete_refund up to and including _log_activity. When
\* the emitter succeeds, its conn.commit() (notifications.py:145) commits them before
\* the handler goes on.
complete_refund_first_commit(db, refund_id) ==
  LET refund == db.refunds[refund_id]
      rma == _get_rma(db, refund.rma_id)
      db1 == [db EXCEPT !.refunds[refund_id].status = "COMPLETED"]
      db2 == UpdateRma(db1, refund.rma_id, [status |-> "COMPLETED", closed_at |-> TS])
      db3 == IF refund.sale_id \in 1..Len(db2.sale)
             THEN [db2 EXCEPT !.sale[refund.sale_id].status = "REFUNDED"]
             ELSE db2
      db4 == _adjust_inventory_for_disposition(db3, refund.rma_id, rma.disposition)
  IN _log_activity(db4, refund.rma_id, "REFUND_COMPLETED", "PROCESSING", "COMPLETED")

complete_refund_db(db, refund_id, success) ==
  LET refund == db.refunds[refund_id]
      db1 == [db EXCEPT !.refunds[refund_id].status = "FAILED"]
  IN IF success
     THEN _notify_customer(complete_refund_first_commit(db, refund_id),
                           refund.rma_id, "COMPLETED_REFUND")
     ELSE _log_activity(db1, refund.rma_id, "REFUND_FAILED", "PROCESSING", "PROCESSING")

complete_refund(refund_id, success) ==
  /\ complete_refund_ok(DB, refund_id)
  /\ CanLog(DB, IF success THEN 2 ELSE 1)
  /\ Commit(complete_refund_db(DB, refund_id, success))
  /\ UNCHANGED <<now, conn, breaker, clock, thread>>

process_replacement_ok(db, rma_id) ==
  /\ RmaExists(db, rma_id)
  /\ _get_rma(db, rma_id).disposition = "REPLACEMENT"

RECURSIVE ReplacementItems(_, _, _, _)
ReplacementItems(items, n, sale_id, prod) ==
  IF n = 0 THEN <<>>
  ELSE Append(ReplacementItems(items, n - 1, sale_id, prod),
              [sale_id |-> sale_id, product_id |-> items[n].product_id,
               quantity |-> items[n].quantity,
               price_cents |-> prod[items[n].product_id].price_cents])

process_replacement_db_RestoresReturned(db, rma_id, t) ==
  LET rma == _get_rma(db, rma_id)
      rma_items_ == db.rma_items[rma_id]
      replacement_sale_id == Len(db.sale) + 1
      db1 == [db EXCEPT !.sale = Append(@, [user_id |-> rma.user_id, status |-> "COMPLETED",
                                            total_cents |-> 0, sale_time |-> t])]
      db2 == [db1 EXCEPT !.sale_item = @ \o ReplacementItems(rma_items_, Len(rma_items_),
                                                             replacement_sale_id, db.product),
                         !.product = AddStock(@, rma_items_, Len(rma_items_), -1)]
      db2r == _adjust_inventory_for_disposition(db2, rma_id, "REFUND")
      db3 == UpdateRma(db2r, rma_id, [status |-> "COMPLETED", closed_at |-> TS])
      db4 == _log_activity(db3, rma_id, "REPLACEMENT_PROCESSED", "DISPOSITION", "COMPLETED")
  IN _notify_customer(db4, rma_id, "COMPLETED_REPLACEMENT")

process_replacement_first_commit(db, rma_id, t) ==
  LET rma == _get_rma(db, rma_id)
      rma_items_ == db.rma_items[rma_id]
      replacement_sale_id == Len(db.sale) + 1
      db1 == [db EXCEPT !.sale = Append(@, [user_id |-> rma.user_id, status |-> "COMPLETED",
                                            total_cents |-> 0, sale_time |-> t])]
      db2 == [db1 EXCEPT !.sale_item = @ \o ReplacementItems(rma_items_, Len(rma_items_),
                                                             replacement_sale_id, db.product),
                         !.product = AddStock(@, rma_items_, Len(rma_items_), -1)]
      db3 == UpdateRma(db2, rma_id, [status |-> "COMPLETED", closed_at |-> TS])
  IN _log_activity(db3, rma_id, "REPLACEMENT_PROCESSED", "DISPOSITION", "COMPLETED")

process_replacement_db(db, rma_id, t) ==
  _notify_customer(process_replacement_first_commit(db, rma_id, t), rma_id, "COMPLETED_REPLACEMENT")

process_replacement(rma_id) ==
  /\ process_replacement_ok(DB, rma_id)
  /\ CanLog(DB, 2)
  /\ Len(sale) < MaxSales
  /\ Commit(process_replacement_db(DB, rma_id, now))
  /\ UNCHANGED <<now, conn, breaker, clock, thread>>

process_store_credit_ok(db, rma_id) ==
  /\ RmaExists(db, rma_id)
  /\ _get_rma(db, rma_id).disposition = "STORE_CREDIT"

process_store_credit_first_commit(db, rma_id, amount_cents) ==
  LET db1 == _adjust_inventory_for_disposition(db, rma_id, "STORE_CREDIT")
      db2 == UpdateRma(db1, rma_id, [status |-> "COMPLETED",
                                     refund_amount_cents |-> amount_cents, closed_at |-> TS])
  IN _log_activity(db2, rma_id, "STORE_CREDIT_ISSUED", "DISPOSITION", "COMPLETED")

process_store_credit_db(db, rma_id, amount_cents) ==
  _notify_customer(process_store_credit_first_commit(db, rma_id, amount_cents), rma_id, "COMPLETED_CREDIT")

process_store_credit(rma_id, amount_cents) ==
  /\ process_store_credit_ok(DB, rma_id)
  /\ CanLog(DB, 2)
  /\ Commit(process_store_credit_db(DB, rma_id, amount_cents))
  /\ UNCHANGED <<now, conn, breaker, clock, thread>>

process_repair_ok(db, rma_id) ==
  /\ RmaExists(db, rma_id)
  /\ _get_rma(db, rma_id).disposition = "REPAIR"
  /\ _get_rma(db, rma_id).status = "DISPOSITION"

process_repair_db(db, rma_id) ==
  LET db1 == UpdateRma(db, rma_id, [status |-> "PROCESSING"])
  IN _log_activity(db1, rma_id, "REPAIR_INITIATED", "DISPOSITION", "PROCESSING")

process_repair(rma_id) ==
  /\ process_repair_ok(DB, rma_id)
  /\ CanLog(DB, 1)
  /\ Commit(process_repair_db(DB, rma_id))
  /\ UNCHANGED <<now, conn, breaker, clock, thread>>

complete_repair_ok(db, rma_id) ==
  /\ RmaExists(db, rma_id)
  /\ _get_rma(db, rma_id).disposition = "REPAIR"

complete_repair_first_commit(db, rma_id) ==
  LET db1 == UpdateRma(db, rma_id, [status |-> "COMPLETED", closed_at |-> TS])
  IN _log_activity(db1, rma_id, "REPAIR_COMPLETED", "PROCESSING", "COMPLETED")

complete_repair_db(db, rma_id) ==
  _notify_customer(complete_repair_first_commit(db, rma_id), rma_id, "COMPLETED_REPAIR")

complete_repair(rma_id) ==
  /\ complete_repair_ok(DB, rma_id)
  /\ CanLog(DB, 2)
  /\ Commit(complete_repair_db(DB, rma_id))
  /\ UNCHANGED <<now, conn, breaker, clock, thread>>

process_rejection_ok(db, rma_id) ==
  /\ RmaExists(db, rma_id)
  /\ _get_rma(db, rma_id).disposition = "REJECT"

process_rejection_first_commit_Restores(db, rma_id) ==
  LET db1 == _adjust_inventory_for_disposition(db, rma_id, "REFUND")
      db2 == UpdateRma(db1, rma_id, [status |-> "COMPLETED", closed_at |-> TS])
  IN _log_activity(db2, rma_id, "RETURN_REJECTED", "DISPOSITION", "COMPLETED")

process_rejection_first_commit(db, rma_id) ==
  LET db1 == _adjust_inventory_for_disposition(db, rma_id, "REJECT")
      db2 == UpdateRma(db1, rma_id, [status |-> "COMPLETED", closed_at |-> TS])
  IN _log_activity(db2, rma_id, "RETURN_REJECTED", "DISPOSITION", "COMPLETED")

process_rejection_db(db, rma_id) ==
  _notify_customer(process_rejection_first_commit(db, rma_id), rma_id, "REJECTED")

process_rejection(rma_id) ==
  /\ process_rejection_ok(DB, rma_id)
  /\ CanLog(DB, 2)
  /\ Commit(process_rejection_db(DB, rma_id))
  /\ UNCHANGED <<now, conn, breaker, clock, thread>>

-----------------------------------------------------------------------------
(* STEP 7: closure *)

close_rma_ok(db, rma_id) ==
  /\ RmaExists(db, rma_id)
  /\ _get_rma(db, rma_id).status # "COMPLETED"

close_rma_first_commit(db, rma_id) ==
  LET rma == _get_rma(db, rma_id)
      db1 == UpdateRma(db, rma_id, [status |-> "COMPLETED", closed_at |-> TS])
  IN _log_activity(db1, rma_id, "CLOSED", rma.status, "COMPLETED")

close_rma_db_Revalidates(db, rma_id, today) ==
  LET rma == _get_rma(db, rma_id)
      db1 == UpdateRma(close_rma_first_commit(db, rma_id), rma_id,
                       [warranty_valid |-> Bool2Int(_check_warranty(db, rma.sale_id, today))])
  IN _update_metrics(db1, rma_id, today)

close_rma_db(db, rma_id, today) ==
  _update_metrics(close_rma_first_commit(db, rma_id), rma_id, today)

close_rma_call_NoEarlyReturn(db, rma_id, today) ==
  IF ~RmaExists(db, rma_id)
  THEN db
  ELSE close_rma_db(db, rma_id, today)

\* One invocation of close_rma as a function of the database: the state it leaves,
\* whether it raises (no such RMA), returns early (already COMPLETED) or closes.
close_rma_call(db, rma_id, today) ==
  IF ~RmaExists(db, rma_id)
  THEN db                                   \* _get_rma raises ValueError
  ELSE IF _get_rma(db, rma_id).status = "COMPLETED"
       THEN db                              \* return: already closed
       ELSE close_rma_db(db, rma_id, today)

close_rma(rma_id) ==
  /\ close_rma_ok(DB, rma_id)
  /\ CanLog(DB, 1)
  /\ Commit(close_rma_call(DB, rma_id, now))
  /\ UNCHANGED <<now, conn, breaker, clock, thread>>

cancel_rma_ok(db, rma_id) ==
  /\ RmaExists(db, rma_id)
  /\ _get_rma(db, rma_id).status \notin {"COMPLETED", "CANCELLED"}

cancel_rma_db_ClearsShipping(db, rma_id) ==
  LET rma == _get_rma(db, rma_id)
      db1 == UpdateRma(db, rma_id, [status |-> "CANCELLED", closed_at |-> TS,
                                    shipping_carrier |-> NULL, tracking_number |-> NULL,
                                    shipped_at |-> NULL])
  IN _log_activity(db1, rma_id, "CANCELLED", rma.status, "CANCELLED")

cancel_rma_db(db, rma_id) ==
  LET rma == _get_rma(db, rma_id)
      db1 == UpdateRma(db, rma_id, [status |-> "CANCELLED", closed_at |-> TS])
  IN _log_activity(db1, rma_id, "CANCELLED", rma.status, "CANCELLED")

cancel_rma(rma_id) ==
  /\ cancel_rma_ok(DB, rma_id)
  /\ CanLog(DB, 1)
  /\ Commit(cancel_rma_db(DB, rma_id))
  /\ UNCHANGED <<now, conn, breaker, clock, thread>>

-----------------------------------------------------------------------------
(* The clock *)

Tick ==
  /\ now + TickDays <= MaxNow
  /\ now' = now + TickDays
  /\ UNCHANGED <<rma_requests, rma_items, rma_activity_log, notifications, refunds,
                 sale, sale_item, product, rma_metrics, status_trace, conn,
                 notification_raises, breaker, clock, thread>>

-----------------------------------------------------------------------------
(* The circuit breaker of the resiliency layer (flash_sales/circuit_breaker.py) *)

CLOSED == "closed"
OPEN == "open"
HALF_OPEN == "half_open"

None == -1

failure_threshold == 3
timeout_seconds == 30
success_threshold == 2

Threads == {1, 2}
ClockSteps == {1, timeout_seconds}
MaxClock == 64

\* CircuitBreaker.__init__, as the circuit_breaker decorator calls it
Breaker0 ==
  [state |-> CLOSED, failure_count |-> 0, success_count |-> 0, last_failure_time |-> None]

NoCall == [pc |-> "idle", result |-> "none"]

BreakerAtRest ==
  /\ breaker = Breaker0
  /\ clock = 0
  /\ thread = [th \in Threads |-> NoCall]

_should_attempt_reset_Inclusive(b, t) ==
  IF b.last_failure_time = None THEN TRUE
  ELSE t - b.last_failure_time >= timeout_seconds

_should_attempt_reset(b, t) ==
  IF b.last_failure_time = None THEN TRUE
  ELSE t - b.last_failure_time > timeout_seconds

\* the locked head of call: the breaker it leaves and whether it raises CircuitBreakerOpenError
call_gate(b, t) ==
  IF b.state = OPEN
    THEN IF _should_attempt_reset(b, t)
           THEN [breaker |-> [b EXCEPT !.state = HALF_OPEN, !.success_count = 0], raises |-> FALSE]
           ELSE [breaker |-> b, raises |-> TRUE]
    ELSE [breaker |-> b, raises |-> FALSE]

_on_success(b) ==
  LET b1 == [b EXCEPT !.failure_count = 0] IN
  IF b1.state = HALF_OPEN
    THEN LET b2 == [b1 EXCEPT !.success_count = @ + 1] IN
         IF b2.success_count >= success_threshold
           THEN [b2 EXCEPT !.state = CLOSED, !.success_count = 0]
           ELSE b2
    ELSE b1

_on_failure(b, t) ==
  LET b1 == [b EXCEPT !.failure_count = @ + 1, !.last_failure_time = t] IN
  IF b1.failure_count >= failure_threshold
    THEN [b1 EXCEPT !.state = OPEN]
    ELSE b1

-----------------------------------------------------------------------------
(* The store at start-up: two completed sales, no RMA yet *)

Conns == {1, 2}
Idle == [pc |-> "idle"]

DB0 ==
  [rma_requests |-> <<>>, rma_items |-> <<>>, rma_activity_log |-> <<>>,
   notifications |-> <<>>, refunds |-> <<>>,
   sale |-> << [user_id |-> 1, status |-> "COMPLETED", total_cents |-> 3998, sale_time |-> 39],
               [user_id |-> 2, status |-> "COMPLETED", total_cents |-> 4997, sale_time |-> 0] >>,
   sale_item |-> << [sale_id |-> 1, product_id |-> 1, quantity |-> 2, price_cents |-> 1999],
                    [sale_id |-> 2, product_id |-> 1, quantity |-> 2, price_cents |-> 1999],
                    [sale_id |-> 2, product_id |-> 2, quantity |-> 1, price_cents |-> 999] >>,
   product |-> << [stock |-> 1, price_cents |-> 1999], [stock |-> 1, price_cents |-> 999] >>,
   rma_metrics |-> <<>>, status_trace |-> <<>>, notification_raises |-> FALSE]

InitDB ==
  /\ rma_requests = DB0.rma_requests
  /\ rma_items = DB0.rma_items
  /\ rma_activity_log = DB0.rma_activity_log
  /\ notifications = DB0.notifications
  /\ refunds = DB0.refunds
  /\ sale = DB0.sale
  /\ sale_item = DB0.sale_item
  /\ product = DB0.product
  /\ rma_metrics = DB0.rma_metrics
  /\ status_trace = DB0.status_trace

Init ==
  /\ InitDB
  /\ notification_raises = DB0.notification_raises
  /\ now = InitNow
  /\ conn = [c \in Conns |-> Idle]
  /\ BreakerAtRest

Next ==
  \/ \E s \in 1..MaxSales, u \in Users : \E items \in ItemChoices(s) : submit_rma_request(s, u, items)
  \/ \E r \in 1..MaxRma, approve \in BOOLEAN, cw \in BOOLEAN, cp \in BOOLEAN :
        validate_rma_request(r, approve, cw, cp)
  \/ \E r \in 1..MaxRma, c \in Carriers, tn \in TrackingNumbers : update_shipping_info(r, c, tn)
  \/ \E r \in 1..MaxRma : mark_received(r)
  \/ \E r \in 1..MaxRma : start_inspection(r)
  \/ \E r \in 1..MaxRma, result \in InspectionInputs : complete_inspection(r, result)
  \/ \E r \in 1..MaxRma, d \in valid_dispositions : make_disposition(r, d)
  \/ \E r \in 1..MaxRma, a \in Amounts : process_refund(r, a)
  \/ \E f \in 1..MaxRefunds, success \in BOOLEAN : complete_refund(f, success)
  \/ \E r \in 1..MaxRma : process_replacement(r)
  \/ \E r \in 1..MaxRma, a \in Amounts : process_store_credit(r, a)
  \/ \E r \in 1..MaxRma : process_repair(r)
  \/ \E r \in 1..MaxRma : complete_repair(r)
  \/ \E r \in 1..MaxRma : process_rejection(r)
  \/ \E r \in 1..MaxRma : close_rma(r)
  \/ \E r \in 1..MaxRma : cancel_rma(r)

Spec == Init /\ [][Next]_vars

\* ---------------------------------------------------------------------------
\* Eligibility at the edges of the warranty window and of the purchase date: sale 1 was
\* made one day before, at, or one day after the start of the window ending now, or
\* one day before, at, or one day after now. Customers submit, staff validate, and the
\* clock may advance by the length of the window.
SaleTimes ==
  {InitNow - WarrantyDays - 1, InitNow - WarrantyDays, InitNow - WarrantyDays + 1,
   InitNow - 1, InitNow, InitNow + 1}

InitEligibility ==
  \E s \in SaleTimes :
    /\ rma_requests = DB0.rma_requests
    /\ rma_items = DB0.rma_items
    /\ rma_activity_log = DB0.rma_activity_log
    /\ notifications = DB0.notifications
    /\ refunds = DB0.refunds
    /\ sale = [DB0.sale EXCEPT ![1].sale_time = s]
    /\ sale_item = DB0.sale_item
    /\ product = DB0.product
    /\ rma_metrics = DB0.rma_metrics
    /\ status_trace = DB0.status_trace
    /\ notification_raises = DB0.notification_raises
    /\ now = InitNow
    /\ conn = [c \in Conns |-> Idle]
  /\ BreakerAtRest
    /\ BreakerAtRest

NextEligibility ==
  \/ \E s \in 1..MaxSales, u \in Users : \E items \in ItemChoices(s) : submit_rma_request(s, u, items)
  \/ \E r \in 1..MaxRma, approve \in BOOLEAN, cw \in BOOLEAN, cp \in BOOLEAN :
        validate_rma_request(r, approve, cw, cp)
  \/ Tick

SpecEligibility == InitEligibility /\ [][NextEligibility]_vars

\* ---------------------------------------------------------------------------
\* The two ways into update_shipping: the HTTP route POST /rma/<id>/shipping, which
\* checks the request fields and the ownership before it calls the manager, and
\* RMAManager.update_shipping_info called directly with any strings.
update_shipping_ok(db, rma_id, user_id, carrier, tracking_number) ==
  /\ carrier # "" /\ tracking_number # ""            \* else 400 BadRequest
  /\ RmaExists(db, rma_id)
  /\ _get_rma(db, rma_id).user_id = user_id          \* else 403 Forbidden
  /\ update_shipping_info_ok(db, rma_id)             \* else ValueError -> 400

update_shipping(rma_id, user_id, carrier, tracking_number) ==
  /\ update_shipping_ok(DB, rma_id, user_id, carrier, tracking_number)
  /\ CanLog(DB, 1)
  /\ Commit(update_shipping_info_db(DB, rma_id, carrier, tracking_number))
  /\ UNCHANGED <<now, conn, breaker, clock, thread>>

NextShipping ==
  \/ Next
  \/ \E r \in 1..MaxRma, u \in Users, c \in AnyCarrier, tn \in AnyTrackingNumber :
        update_shipping(r, u, c, tn)
  \/ \E r \in 1..MaxRma, c \in AnyCarrier, tn \in AnyTrackingNumber :
        update_shipping_info(r, c, tn)

SpecShipping == Init /\ [][NextShipping]_vars

\* ---------------------------------------------------------------------------
\* Failure after the commit made inside the notification emitter.
\* NotificationService.create_rma_status_notification ends with conn.commit()
\* (notifications.py:145) on the handler's own connection. A handler that writes after
\* its status-changing _log_activity (the CUSTOMER_NOTIFIED row, the metrics row) has
\* therefore committed its first part when that later write raises (sqlite3
\* OperationalError: database is locked / disk I/O error) or the process dies; the
\* handlers have no rollback and nothing undoes a commit.
complete_refund_interrupted(refund_id) ==
  /\ ~notification_raises
  /\ complete_refund_ok(DB, refund_id)
  /\ CanLog(DB, 1)
  /\ Commit(complete_refund_first_commit(DB, refund_id))
  /\ UNCHANGED <<now, conn, breaker, clock, thread>>

process_replacement_interrupted(rma_id) ==
  /\ ~notification_raises
  /\ process_replacement_ok(DB, rma_id)
  /\ CanLog(DB, 1)
  /\ Len(sale) < MaxSales
  /\ Commit(process_replacement_first_commit(DB, rma_id, now))
  /\ UNCHANGED <<now, conn, breaker, clock, thread>>

process_store_credit_interrupted(rma_id, amount_cents) ==
  /\ ~notification_raises
  /\ process_store_credit_ok(DB, rma_id)
  /\ CanLog(DB, 1)
  /\ Commit(process_store_credit_first_commit(DB, rma_id, amount_cents))
  /\ UNCHANGED <<now, conn, breaker, clock, thread>>

complete_repair_interrupted(rma_id) ==
  /\ ~notification_raises
  /\ complete_repair_ok(DB, rma_id)
  /\ CanLog(DB, 1)
  /\ Commit(complete_repair_first_commit(DB, rma_id))
  /\ UNCHANGED <<now, conn, breaker, clock, thread>>

process_rejection_interrupted(rma_id) ==
  /\ ~notification_raises
  /\ process_rejection_ok(DB, rma_id)
  /\ CanLog(DB, 1)
  /\ Commit(process_rejection_first_commit(DB, rma_id))
  /\ UNCHANGED <<now, conn, breaker, clock, thread>>

close_rma_interrupted(rma_id) ==
  /\ ~notification_raises
  /\ close_rma_ok(DB, rma_id)
  /\ CanLog(DB, 1)
  /\ Commit(close_rma_first_commit(DB, rma_id))
  /\ UNCHANGED <<now, conn, breaker, clock, thread>>

Interrupted ==
  \/ \E f \in 1..MaxRefunds : complete_refund_interrupted(f)
  \/ \E r \in 1..MaxRma : process_replacement_interrupted(r)
  \/ \E r \in 1..MaxRma, a \in Amounts : process_store_credit_interrupted(r, a)
  \/ \E r \in 1..MaxRma : complete_repair_interrupted(r)
  \/ \E r \in 1..MaxRma : process_rejection_interrupted(r)
  \/ \E r \in 1..MaxRma : close_rma_interrupted(r)

NextFail == Next \/ Interrupted

SpecFail == Init /\ [][NextFail]_vars


\* the same operations while the clock advances
NextClock == Next \/ Tick

SpecClock == Init /\ [][NextClock]_vars

\* The same operations while the notification emitter is out of order (its table locked
\* or missing): every call of NotificationService.create_rma_status_notification raises
InitNotify ==
  /\ InitDB
  /\ notification_raises = TRUE
  /\ now = InitNow
  /\ conn = [c \in Conns |-> Idle]
  /\ BreakerAtRest

SpecNotify == InitNotify /\ [][Next]_vars

-----------------------------------------------------------------------------
(* Requests on separate connections (routes.get_conn opens one per request). *)
(* A SELECT reads the committed store and holds no lock afterwards; the      *)
(* first UPDATE/INSERT opens the write transaction, which runs to its commit *)
(* without another writer in between.  A request is therefore two steps: its *)
(* reads and checks, then its writes and commit.                             *)

Begin_mark_received(c, rma_id) ==
  /\ conn[c].pc = "idle"
  /\ mark_received_ok(DB, rma_id)
  /\ conn' = [conn EXCEPT ![c] = [pc |-> "mark_received", rma_id |-> rma_id]]
  /\ UNCHANGED <<rma_requests, rma_items, rma_activity_log, notifications, refunds,
                 sale, sale_item, product, rma_metrics, now, status_trace,
                 notification_raises, breaker, clock, thread>>

Finish_mark_received(c) ==
  /\ conn[c].pc = "mark_received"
  /\ CanLog(DB, 1)
  /\ Commit(mark_received_db(DB, conn[c].rma_id))
  /\ conn' = [conn EXCEPT ![c] = Idle]
  /\ UNCHANGED <<now, breaker, clock, thread>>

Begin_process_refund(c, rma_id, amount_cents) ==
  /\ conn[c].pc = "idle"
  /\ process_refund_ok(DB, rma_id)
  /\ conn' = [conn EXCEPT ![c] = [pc |-> "process_refund", rma_id |-> rma_id,
                                  amount_cents |-> amount_cents]]
  /\ UNCHANGED <<rma_requests, rma_items, rma_activity_log, notifications, refunds,
                 sale, sale_item, product, rma_metrics, now, status_trace,
                 notification_raises, breaker, clock, thread>>

Finish_process_refund(c) ==
  /\ conn[c].pc = "process_refund"
  /\ CanLog(DB, 1)
  /\ Len(refunds) < MaxRefunds
  /\ Commit(process_refund_write(DB, conn[c].rma_id, conn[c].amount_cents))
  /\ conn' = [conn EXCEPT ![c] = Idle]
  /\ UNCHANGED <<now, breaker, clock, thread>>

\* validate_rma_request on its own connection: the SELECTs (row, sale, count of the
\* day's numbers) first, the UPDATE, ledger entry and commit later
Begin_validate_rma_request(c, rma_id, approve, check_warranty, check_purchase_date) ==
  /\ conn[c].pc = "idle"
  /\ validate_rma_request_ok(DB, rma_id)
  /\ conn' = [conn EXCEPT ![c] =
               [pc |-> "validate_rma_request", rma_id |-> rma_id,
                decided |-> validate_rma_request_read(DB, rma_id, approve, check_warranty,
                                                      check_purchase_date, now)]]
  /\ UNCHANGED <<rma_requests, rma_items, rma_activity_log, notifications, refunds,
                 sale, sale_item, product, rma_metrics, now, status_trace,
                 notification_raises, breaker, clock, thread>>

Finish_validate_rma_request(c) ==
  /\ conn[c].pc = "validate_rma_request"
  /\ CanLog(DB, 1)
  /\ Commit(validate_rma_request_write(DB, conn[c].rma_id, conn[c].decided))
  /\ conn' = [conn EXCEPT ![c] = Idle]
  /\ UNCHANGED <<now, breaker, clock, thread>>

\* customers submit and ship, staff validate, in one piece or interleaved
NextValidate ==
  \/ \E s \in 1..MaxSales, u \in Users : \E items \in ItemChoices(s) : submit_rma_request(s, u, items)
  \/ \E r \in 1..MaxRma, approve \in BOOLEAN, cw \in BOOLEAN, cp \in BOOLEAN :
        validate_rma_request(r, approve, cw, cp)
  \/ \E r \in 1..MaxRma, c \in Carriers, tn \in TrackingNumbers : update_shipping_info(r, c, tn)
  \/ \E c \in Conns, r \in 1..MaxRma, approve \in BOOLEAN, cw \in BOOLEAN, cp \in BOOLEAN :
        Begin_validate_rma_request(c, r, approve, cw, cp)
  \/ \E c \in Conns : Finish_validate_rma_request(c)

SpecValidate == Init /\ [][NextValidate]_vars

\* The committed store after submit(sale 1, user 1), validate(approve) and update_shipping
ShippingDB ==
  update_shipping_info_db(
    validate_rma_request_db(
      submit_rma_request_db(DB0, 1, 1, <<Item(1, 2)>>), 1, TRUE, TRUE, TRUE, InitNow),
    1, "UPS", "1Z1")

InitConc ==
  /\ rma_requests = ShippingDB.rma_requests
  /\ rma_items = ShippingDB.rma_items
  /\ rma_activity_log = ShippingDB.rma_activity_log
  /\ notifications = ShippingDB.notifications
  /\ refunds = ShippingDB.refunds
  /\ sale = ShippingDB.sale
  /\ sale_item = ShippingDB.sale_item
  /\ product = ShippingDB.product
  /\ rma_metrics = ShippingDB.rma_metrics
  /\ status_trace = ShippingDB.status_trace
  /\ notification_raises = ShippingDB.notification_raises
  /\ now = InitNow
  /\ conn = [c \in Conns |-> Idle]
  /\ BreakerAtRest

NextConc ==
  \/ Next
  \/ \E c \in Conns, r \in 1..MaxRma : Begin_mark_received(c, r)
  \/ \E c \in Conns : Finish_mark_received(c)
  \/ \E c \in Conns, r \in 1..MaxRma, a \in Amounts : Begin_process_refund(c, r, a)
  \/ \E c \in Conns : Finish_process_refund(c)

SpecConc == InitConc /\ [][NextConc]_vars

-----------------------------------------------------------------------------
(* Calls through the circuit breaker.  call takes the lock for its head, runs
   the wrapped function outside the lock, and takes the lock again in
   _on_success or _on_failure, so calls of several threads interleave. *)

StoreUnchanged ==
  UNCHANGED <<rma_requests, rma_items, rma_activity_log, notifications, refunds,
              sale, sale_item, product, rma_metrics, now, status_trace, conn,
              notification_raises>>

Begin_call(th) ==
  /\ thread[th].pc = "idle"
  /\ LET g == call_gate(breaker, clock) IN
       /\ breaker' = g.breaker
       /\ thread' = [thread EXCEPT ![th] =
                       IF g.raises THEN [pc |-> "idle", result |-> "CircuitBreakerOpenError"]
                       ELSE [pc |-> "running", result |-> "none"]]
  /\ UNCHANGED clock
  /\ StoreUnchanged

Finish_call(th, func_raises) ==
  /\ thread[th].pc = "running"
  /\ breaker' = IF func_raises THEN _on_failure(breaker, clock) ELSE _on_success(breaker)
  /\ thread' = [thread EXCEPT ![th] =
                  [pc |-> "idle", result |-> IF func_raises THEN "raised" ELSE "returned"]]
  /\ UNCHANGED clock
  /\ StoreUnchanged

reset ==
  /\ breaker' = [breaker EXCEPT !.state = CLOSED, !.failure_count = 0,
                                 !.success_count = 0, !.last_failure_time = None]
  /\ UNCHANGED <<clock, thread>>
  /\ StoreUnchanged

TickClock(d) ==
  /\ clock + d <= MaxClock
  /\ clock' = clock + d
  /\ UNCHANGED <<breaker, thread>>
  /\ StoreUnchanged

NextBreaker ==
  \/ \E th \in Threads : Begin_call(th)
  \/ \E th \in Threads, func_raises \in BOOLEAN : Finish_call(th, func_raises)
  \/ reset
  \/ \E d \in ClockSteps : TickClock(d)

SpecBreaker == Init /\ [][NextBreaker]_vars

-----------------------------------------------------------------------------
(* Properties *)

Range(f) == {f[i] : i \in DOMAIN f}

RECURSIVE IsSubseq(_, _)
IsSubseq(a, b) ==
  IF a = <<>> THEN TRUE
  ELSE IF b = <<>> THEN FALSE
  ELSE IF Head(a) = Head(b) THEN IsSubseq(Tail(a), Tail(b))
  ELSE IsSubseq(a, Tail(b))

Rows == 1..Len(rma_requests)
\* this step appended to the ledger of RMA r, as every operation on r does
Logged(r) == rma_activity_log'[r] # rma_activity_log[r]
StatusOf(tab, r) == tab[r].status
ActiveRmas(sale_id) ==
  {r \in Rows : rma_requests[r].sale_id = sale_id /\ rma_requests[r].status \notin Terminal}
\* this step is an update_shipping_info call on r
ShippingUpdated(r) ==
  \E c \in AnyCarrier, tn \in AnyTrackingNumber : update_shipping_info(r, c, tn)
LogActions(r, action) ==
  {i \in 1..Len(rma_activity_log[r]) : rma_activity_log[r][i].action = action}

\* C1: in every reachable state each sale_id has at most one RMA whose status is
\* outside {COMPLETED, REJECTED, CANCELLED}.
C1_OneActiveRmaPerSale ==
  \A s \in 1..Len(sale) : Cardinality(ActiveRmas(s)) <= 1

\* C2: of two mark_received requests running concurrently on their own connections
\* against the same RMA at most one succeeds, so the SHIPPING -> RECEIVED transition
\* is applied and logged at most once per RMA.
C2_MarkReceivedAppliedOnce ==
  \A r \in Rows : Cardinality(LogActions(r, "RECEIVED")) <= 1

\* C3: terminal statuses are absorbing: once an RMA is COMPLETED, REJECTED or
\* CANCELLED no operation changes its status.
C3_TerminalAbsorbing ==
  [][\A r \in Rows : StatusOf(rma_requests, r) \in Terminal
                       => StatusOf(rma_requests', r) = StatusOf(rma_requests, r)]_vars

LinearPath == <<"SUBMITTED", "APPROVED", "SHIPPING", "RECEIVED", "INSPECTING">>

LinearEdges(r) ==
  LET s == StatusOf(rma_requests, r)
      t == StatusOf(rma_requests', r)
  IN /\ (\E a \in BOOLEAN, cw \in BOOLEAN, cp \in BOOLEAN : validate_rma_request(r, a, cw, cp))
          => s = "SUBMITTED" /\ t \in {"APPROVED", "REJECTED"}
     /\ ShippingUpdated(r) => s \in {"APPROVED", "SHIPPING"} /\ t = "SHIPPING"
     /\ mark_received(r) => s = "SHIPPING" /\ t = "RECEIVED"
     /\ start_inspection(r) => s = "RECEIVED" /\ t = "INSPECTING"
     /\ (\E res \in valid_results : complete_inspection(r, res))
          => s = "INSPECTING" /\ t = "INSPECTED"
     /\ (\E d \in valid_dispositions : make_disposition(r, d))
          => s \in {"INSPECTED", "DISPOSITION"}

StatusEdges(r) ==
  LET s == StatusOf(rma_requests, r)
      t == StatusOf(rma_requests', r)
  IN /\ (t = "APPROVED" /\ s # t) => s = "SUBMITTED"
     /\ (t = "SHIPPING" /\ s # t) => s = "APPROVED"
     /\ (t = "RECEIVED" /\ s # t) => s = "SHIPPING"
     /\ (t = "INSPECTING" /\ s # t) => s = "RECEIVED"
     /\ (t = "INSPECTED" /\ s # t) => s = "INSPECTING"

\* C4: the linear transitions follow the lifecycle graph only (validate from SUBMITTED,
\* update_shipping from APPROVED or SHIPPING, mark_received from SHIPPING, start_inspection
\* from RECEIVED, complete_inspection from INSPECTING, make_disposition from INSPECTED or
\* DISPOSITION), and every INSPECTED RMA has been SUBMITTED, APPROVED, SHIPPING, RECEIVED
\* and INSPECTING before, in that order.
C4_LinearLifecycle ==
  /\ [](\A r \in Rows : StatusOf(rma_requests, r) = "INSPECTED"
                          => IsSubseq(Append(LinearPath, "INSPECTED"), status_trace[r]))
  /\ [][\A r \in Rows : StatusEdges(r) /\ (Logged(r) => LinearEdges(r))]_vars

C4_Witness ==
  \E r \in Rows : /\ StatusOf(rma_requests, r) = "INSPECTED"
                  /\ Len(rma_activity_log[r]) >= 7

DispositionHandlerStates == {"DISPOSITION", "PROCESSING"}

PreconditionRespected(r) ==
  LET s == StatusOf(rma_requests, r)
  IN /\ (\E a \in BOOLEAN, cw \in BOOLEAN, cp \in BOOLEAN : validate_rma_request(r, a, cw, cp))
          => s = "SUBMITTED"
     /\ ShippingUpdated(r) => s \in {"APPROVED", "SHIPPING"}
     /\ mark_received(r) => s = "SHIPPING"
     /\ start_inspection(r) => s = "RECEIVED"
     /\ (\E res \in valid_results : complete_inspection(r, res)) => s = "INSPECTING"
     /\ (\E d \in valid_dispositions : make_disposition(r, d)) => s \in {"INSPECTED", "DISPOSITION"}
     /\ (\E a \in Amounts : process_refund(r, a)) => s \in DispositionHandlerStates
     /\ process_replacement(r) => s \in DispositionHandlerStates
     /\ (\E a \in Amounts : process_store_credit(r, a)) => s \in DispositionHandlerStates
     /\ process_repair(r) => s = "DISPOSITION"
     /\ complete_repair(r) => s = "PROCESSING"
     /\ process_rejection(r) => s \in DispositionHandlerStates
     /\ cancel_rma(r) => s \notin Terminal

\* C5: an operation invoked on an RMA whose status violates the operation's status
\* precondition fails and leaves the store exactly as it was; that is, no operation
\* changes the store from a status outside its legal pre-states.
C5_IllegalStatusLeavesStoreUnchanged ==
  [][\A r \in Rows : Logged(r) => PreconditionRespected(r)]_vars

\* C6: rma_number is null after submit and as long as the RMA has never been APPROVED;
\* it is assigned exactly once, by the validate that approves, and never changes or
\* is cleared afterwards; an RMA rejected at validation never gets a number.
C6_RmaNumberAssignedOnceAtApproval ==
  /\ [](\A r \in Rows : (rma_requests[r].rma_number = NoNumber)
                          <=> ("APPROVED" \notin Range(status_trace[r])))
  /\ [][\A r \in Rows :
          LET n == rma_requests[r].rma_number
              m == rma_requests'[r].rma_number
          IN /\ n # NoNumber => m = n
             /\ (n = NoNumber /\ m # NoNumber)
                  => /\ StatusOf(rma_requests, r) = "SUBMITTED"
                     /\ StatusOf(rma_requests', r) = "APPROVED"
                     /\ \E a \in BOOLEAN, cw \in BOOLEAN, cp \in BOOLEAN :
                           validate_rma_request(r, a, cw, cp)]_vars

C6_Witness ==
  /\ \E r \in Rows : /\ rma_requests[r].rma_number # NoNumber
                     /\ StatusOf(rma_requests, r) \in {"COMPLETED", "CANCELLED"}
  /\ \E r \in Rows : /\ rma_requests[r].rma_number = NoNumber
                     /\ StatusOf(rma_requests, r) = "REJECTED"

OutsideWarranty(r) == now > sale[rma_requests[r].sale_id].sale_time + WarrantyDays

ValidateOutcome(r, approve, cw, cp) ==
  LET after == rma_requests'[r]
      v == validate_new_status(DB, r, approve, cw, cp, now)
  IN /\ after.status \in {"APPROVED", "REJECTED"}
     /\ after.status = "APPROVED"
          <=> (approve /\ after.warranty_valid = 1 /\ after.purchase_date_valid = 1)
     /\ after.is_eligible = 1 <=> (after.warranty_valid = 1 /\ after.purchase_date_valid = 1)
     /\ v.returns <=> after.status = "APPROVED"

\* C7 (as stated): validate yields APPROVED exactly when approve is true and the RMA is
\* eligible, REJECTED otherwise, returns (status = APPROVED), and approving an RMA whose
\* sale is outside the 30-day warranty window always yields REJECTED with
\* warranty_valid = false.
C7_Original ==
  [][\A r \in Rows : Logged(r) =>
        \A approve \in BOOLEAN, cw \in BOOLEAN, cp \in BOOLEAN :
        validate_rma_request(r, approve, cw, cp)
          => /\ ValidateOutcome(r, approve, cw, cp)
             /\ (approve /\ OutsideWarranty(r))
                  => /\ rma_requests'[r].status = "REJECTED"
                     /\ rma_requests'[r].warranty_valid = 0]_vars

\* C7 (amended): validate yields APPROVED exactly when approve is true and the RMA is
\* eligible, REJECTED otherwise, returns (status = APPROVED), and approving with the
\* warranty check enabled (check_warranty = true, the default) an RMA whose sale is
\* outside the 30-day warranty window always yields REJECTED with warranty_valid = false.
C7_ValidateOutcome ==
  [][\A r \in Rows : Logged(r) =>
        \A approve \in BOOLEAN, cw \in BOOLEAN, cp \in BOOLEAN :
        validate_rma_request(r, approve, cw, cp)
          => /\ ValidateOutcome(r, approve, cw, cp)
             /\ (approve /\ cw /\ OutsideWarranty(r))
                  => /\ rma_requests'[r].status = "REJECTED"
                     /\ rma_requests'[r].warranty_valid = 0]_vars

C7_Witness ==
  /\ \E r \in Rows : /\ OutsideWarranty(r)
                     /\ rma_requests[r].status = "REJECTED"
                     /\ rma_requests[r].warranty_valid = 0
  /\ \E r \in Rows : /\ rma_requests[r].status = "APPROVED"
                     /\ rma_requests[r].is_eligible = 1

\* C8: make_disposition sets the disposition to the given value and the status to
\* PROCESSING for REFUND, REPLACEMENT and STORE_CREDIT and to DISPOSITION for REPAIR and
\* REJECT, from INSPECTED as well as from DISPOSITION.
C8_MakeDispositionResult ==
  [][\A r \in Rows : Logged(r) =>
        \A d \in valid_dispositions :
        make_disposition(r, d)
          => /\ rma_requests'[r].disposition = d
             /\ d \in {"REFUND", "REPLACEMENT", "STORE_CREDIT"}
                  => rma_requests'[r].status = "PROCESSING"
             /\ d \in {"REPAIR", "REJECT"} => rma_requests'[r].status = "DISPOSITION"]_vars

C8_Witness ==
  \E r \in Rows : /\ Cardinality(LogActions(r, "DISPOSITION_DECIDED")) = 2
                  /\ rma_requests[r].status = "PROCESSING"
                  /\ rma_requests[r].disposition \in {"REFUND", "REPLACEMENT", "STORE_CREDIT"}

\* C9: in every reachable state, also after interleaved process_refund calls from
\* different connections, there is at most one Refund row per rma_id and a Refund row
\* exists only for an RMA whose disposition is REFUND.
C9_OneRefundPerRma ==
  \A r \in Rows : /\ Cardinality(RefundsOf(DB, r)) <= 1
                  /\ RefundsOf(DB, r) # {} => rma_requests[r].disposition = "REFUND"

RECURSIVE SumQty(_, _, _)
SumQty(items, n, p) ==
  IF n = 0 THEN 0
  ELSE SumQty(items, n - 1, p) + (IF items[n].product_id = p THEN items[n].quantity ELSE 0)

\* C10: complete_refund marks the Refund COMPLETED on success and FAILED otherwise; on
\* success it sets the RMA to COMPLETED, the originating sale to REFUNDED and restores
\* the stock of the returned items; on failure the RMA status, the sale status and every
\* product's stock are unchanged.
C10_CompleteRefundEffects ==
  [][\A f \in 1..Len(refunds) : Logged(refunds[f].rma_id) =>
        \A success \in BOOLEAN :
        complete_refund(f, success)
          => LET r == refunds[f].rma_id
                 items == rma_items[r]
             IN IF success
                THEN /\ refunds'[f].status = "COMPLETED"
                     /\ rma_requests'[r].status = "COMPLETED"
                     /\ sale'[refunds[f].sale_id].status = "REFUNDED"
                     /\ \A p \in 1..Len(product) :
                          product'[p].stock = product[p].stock + SumQty(items, Len(items), p)
                ELSE /\ refunds'[f].status = "FAILED"
                     /\ rma_requests'[r].status = rma_requests[r].status
                     /\ sale' = sale
                     /\ product' = product]_vars

C10_Witness ==
  \E f \in 1..Len(refunds) :
     /\ refunds[f].status = "COMPLETED"
     /\ rma_requests[refunds[f].rma_id].status = "COMPLETED"
     /\ sale[refunds[f].sale_id].status = "REFUNDED"
     /\ product[1].stock = 3

\* C11: a successful complete_refund and a process_store_credit increase the stock of
\* each product by exactly the sum of the RMA's item quantities for that product, and
\* change nothing else of any product (a product the RMA does not return keeps its stock).
C11_RestoreExactlySummedQuantities ==
  [][\A r \in Rows : Logged(r) =>
        (((\E a \in Amounts : process_store_credit(r, a))
            \/ (\E f \in RefundsOf(DB, r) : complete_refund(f, TRUE)))
          => \A p \in 1..Len(product) :
                product'[p] = [product[p] EXCEPT
                                 !.stock = @ + SumQty(rma_items[r], Len(rma_items[r]), p)])]_vars

\* a store credit issued for the three-line return of sale 2: product 1 gained 1 + 1,
\* product 2 gained 1
C11_Witness ==
  \E r \in Rows : /\ Len(rma_items[r]) = 3
                  /\ LogActions(r, "STORE_CREDIT_ISSUED") # {}
                  /\ product[1].stock = DB0.product[1].stock + 2
                  /\ product[2].stock = DB0.product[2].stock + 1

InventoryActions == {"REFUND_COMPLETED", "STORE_CREDIT_ISSUED", "REPLACEMENT_PROCESSED"}
\* the ledger entries of r written by a handler run that changed stock for r
InventoryApplications(r) ==
  {i \in 1..Len(rma_activity_log[r]) : rma_activity_log[r][i].action \in InventoryActions}

\* C13: the inventory effect of a disposition is applied at most once per RMA: no
\* operation on an RMA changes stock once a disposition has already changed stock for it
\* (repeated complete_refund, process_store_credit or process_replacement included).
C13_InventoryAppliedOnce ==
  [][\A r \in Rows : (Logged(r) /\ product' # product) => InventoryApplications(r) = {}]_vars

HandlerGuarded(r) ==
  LET s == StatusOf(rma_requests, r)
      d == rma_requests[r].disposition
      First(action) == LogActions(r, action) = {}
  IN /\ (\E a \in Amounts : process_refund(r, a))
          => d = "REFUND" /\ s \in DispositionHandlerStates /\ First("REFUND_INITIATED")
     /\ process_replacement(r)
          => d = "REPLACEMENT" /\ s \in DispositionHandlerStates /\ First("REPLACEMENT_PROCESSED")
     /\ (\E a \in Amounts : process_store_credit(r, a))
          => d = "STORE_CREDIT" /\ s \in DispositionHandlerStates /\ First("STORE_CREDIT_ISSUED")
     /\ process_rejection(r)
          => d = "REJECT" /\ s \in DispositionHandlerStates /\ First("RETURN_REJECTED")
     /\ process_repair(r) => d = "REPAIR" /\ s = "DISPOSITION" /\ First("REPAIR_INITIATED")
     /\ complete_repair(r) => d = "REPAIR" /\ s = "PROCESSING" /\ First("REPAIR_COMPLETED")

\* C14: a disposition handler (process_refund, process_replacement, process_store_credit,
\* process_rejection, process_repair, complete_repair) takes effect only when the RMA's
\* disposition matches the handler and its status is the handler's pre-state (DISPOSITION,
\* or PROCESSING where make_disposition leads there), and never a second time on an RMA
\* it has already processed.
C14_DispositionHandlersGuarded ==
  [][\A r \in Rows : Logged(r) => HandlerGuarded(r)]_vars

\* C15: repair is two-phase and ordered: process_repair runs only from DISPOSITION and at
\* most once, complete_repair runs only from PROCESSING, and every RMA completed by
\* complete_repair has an earlier successful process_repair.
C15_RepairTwoPhase ==
  /\ [](\A r \in Rows : LogActions(r, "REPAIR_COMPLETED") # {}
                          => LogActions(r, "REPAIR_INITIATED") # {})
  /\ [][\A r \in Rows : Logged(r) =>
          /\ process_repair(r) => /\ StatusOf(rma_requests, r) = "DISPOSITION"
                                  /\ StatusOf(rma_requests', r) = "PROCESSING"
                                  /\ LogActions(r, "REPAIR_INITIATED") = {}
          /\ complete_repair(r) => /\ StatusOf(rma_requests, r) = "PROCESSING"
                                   /\ StatusOf(rma_requests', r) = "COMPLETED"]_vars

\* C16: product stock never goes below zero, whatever the RMA engine does, also after
\* process_replacement for an RMA whose item quantity exceeds the current stock.
C16_StockNeverNegative ==
  \A p \in 1..Len(product) : product[p].stock >= 0

\* the ledger entries this step appended for RMA r
Added(r) ==
  SubSeq(rma_activity_log'[r], Len(rma_activity_log[r]) + 1, Len(rma_activity_log'[r]))
\* the rows this step inserted into rma_requests
NewRows == (1..Len(rma_requests')) \ Rows

NotifyingHandler(r) ==
  \/ \E f \in RefundsOf(DB, r) : complete_refund(f, TRUE)
  \/ process_replacement(r)
  \/ \E a \in Amounts : process_store_credit(r, a)
  \/ complete_repair(r)
  \/ process_rejection(r)

C18_LedgerRecordsActualStatuses ==
  [][/\ \A r \in Rows : Logged(r) =>
          /\ Added(r)[1].old_status = StatusOf(rma_requests, r)
          /\ Added(r)[1].new_status = StatusOf(rma_requests', r)
     /\ \A r \in NewRows :
          /\ rma_activity_log'[r][1].old_status = NULL
          /\ rma_activity_log'[r][1].new_status = StatusOf(rma_requests', r)]_vars

IsPrefix(a, b) == Len(a) <= Len(b) /\ SubSeq(b, 1, Len(a)) = a

\* C19: the activity log is append-only: no operation updates or deletes an existing
\* entry; the log of each RMA is a prefix of its log after every step, hence of its log
\* in every later state.
C19_LedgerAppendOnly ==
  [][/\ Len(rma_activity_log') >= Len(rma_activity_log)
     /\ \A r \in Rows : IsPrefix(rma_activity_log[r], rma_activity_log'[r])]_vars

C19_Witness ==
  /\ \E r \in Rows : Len(rma_activity_log[r]) >= 9
  /\ Len(rma_activity_log) = 2

\* C20: a failure of the notification emitter never fails or rolls back the transition
\* that triggered it: while NotificationService.create_rma_status_notification raises,
\* every operation still commits its status update together with its ledger entry (and
\* only the notification row is missing).
C20_NotificationFailureIsolated ==
  [][notification_raises =>
       /\ \A r \in Rows :
            /\ notifications'[r] = notifications[r]
            /\ status_trace'[r] # status_trace[r]
                 => /\ Logged(r)
                    /\ StatusOf(rma_requests', r) = status_trace'[r][Len(status_trace'[r])]
            /\ (Logged(r) /\ Added(r)[1].action # "REFUND_FAILED")
                 => /\ Len(status_trace'[r]) = Len(status_trace[r]) + 1
                    /\ Added(r)[1].new_status = StatusOf(rma_requests', r)
       /\ \A r \in NewRows : /\ Len(rma_activity_log'[r]) = 1
                              /\ StatusOf(rma_requests', r) = "SUBMITTED"
                              /\ notifications'[r] = <<>>]_vars

\* a whole lifecycle carried out while the emitter raises: ledger complete, no notification
C20_Witness ==
  /\ notification_raises
  /\ \E r \in Rows : /\ StatusOf(rma_requests, r) = "COMPLETED"
                     /\ Len(rma_activity_log[r]) >= 9
                     /\ notifications[r] = <<>>

\* ---------------------------------------------------------------------------
\* C21: each transition is atomic: every committed change of the database is the whole
\* of one operation (request update, ledger entries, refund row, sale status, stock,
\* replacement sale, metric row together), so no failure leaves a committed state
\* holding only part of an operation's writes.
C21_TransitionsAtomic == [][Next]_vars

\* ---------------------------------------------------------------------------
\* C22: cancel_rma is legal exactly while the RMA is non-terminal: from SUBMITTED,
\* APPROVED, SHIPPING, RECEIVED, INSPECTING, INSPECTED, DISPOSITION and PROCESSING it
\* is accepted and sets CANCELLED; from COMPLETED, REJECTED and CANCELLED it fails, so
\* no cancel_rma step starts from a terminal status.
C22_CancelExactlyWhileNonTerminal ==
  /\ [](\A r \in DOMAIN rma_requests :
          rma_requests[r].status \notin Terminal => cancel_rma_ok(DB, r))
  /\ [][\A r \in DOMAIN rma_requests :
          Logged(r) => (cancel_rma(r) => /\ rma_requests[r].status \notin Terminal
                                         /\ rma_requests'[r].status = "CANCELLED")]_vars

\* ---------------------------------------------------------------------------
\* C23: cancel_rma does not undo earlier side effects: it changes only status and
\* closed_at of the cancelled RMA and appends one ledger entry; every other field of
\* the RMA, every other RMA, the items, the refund rows, the sales and the product
\* stock are left as they were.
C23_CancelKeepsSideEffects ==
  [][\A r \in DOMAIN rma_requests :
       Logged(r) => (cancel_rma(r) =>
         /\ rma_requests' = [rma_requests EXCEPT ![r].status = "CANCELLED",
                                                 ![r].closed_at = TS]
         /\ Len(rma_activity_log'[r]) = Len(rma_activity_log[r]) + 1
         /\ IsPrefix(rma_activity_log[r], rma_activity_log'[r])
         /\ UNCHANGED <<rma_items, refunds, sale, sale_item, product, rma_metrics>>)]_vars

C23_Witness ==
  \E r \in DOMAIN rma_requests :
    /\ rma_requests[r].status = "CANCELLED"
    /\ rma_requests[r].shipping_carrier = "UPS"
    /\ rma_requests[r].tracking_number = "1Z1"
    /\ rma_requests[r].inspection_result # NULL
    /\ rma_activity_log[r][Len(rma_activity_log[r])].action = "CANCELLED"

\* ---------------------------------------------------------------------------
\* C24: close_rma is idempotent: on an RMA that is already COMPLETED it changes
\* nothing (no field, no ledger entry, no metric), so closing twice leaves the same
\* database as closing once: status COMPLETED, one CLOSED entry, one metric increment.
CompletedToday(db, today) ==
  IF today \in DOMAIN db.rma_metrics THEN db.rma_metrics[today].completed_requests ELSE 0

C24_CloseIdempotent ==
  \A r \in DOMAIN rma_requests :
    LET once == close_rma_call(DB, r, now)
        twice == close_rma_call(once, r, now)
    IN /\ twice = once
       /\ rma_requests[r].status = "COMPLETED" => once = DB
       /\ rma_requests[r].status # "COMPLETED" =>
            /\ once.rma_requests[r].status = "COMPLETED"
            /\ Len(once.rma_activity_log[r]) = Len(rma_activity_log[r]) + 1
            /\ once.rma_activity_log[r][Len(once.rma_activity_log[r])].action = "CLOSED"
            /\ CompletedToday(once, now) = CompletedToday(DB, now) + 1

C24_Witness ==
  \E r \in DOMAIN rma_requests :
    /\ rma_requests[r].status = "COMPLETED"
    /\ rma_activity_log[r][Len(rma_activity_log[r])].action = "CLOSED"
    /\ CompletedToday(DB, now) = 1
    /\ close_rma_call(DB, r, now) = DB

\* ---------------------------------------------------------------------------
\* C25: submit_rma_request succeeds only when the sale exists, belongs to the
\* submitting user, has status COMPLETED and has no other RMA in a non-terminal status;
\* otherwise no RMA row, item or ledger entry is created. On success exactly one RMA is
\* created, in SUBMITTED, with one item row per submitted item and one ledger entry.
C25_SubmitPreconditions ==
  [][/\ Cardinality(NewRows) <= 1
     /\ Len(rma_items') = Len(rma_requests')
     /\ Len(rma_activity_log') = Len(rma_requests')
     /\ \A r \in NewRows :
          LET new == rma_requests'[r]
          IN /\ new.sale_id \in 1..Len(sale)
             /\ sale[new.sale_id].user_id = new.user_id
             /\ sale[new.sale_id].status = "COMPLETED"
             /\ ActiveRmas(new.sale_id) = {}
             /\ new.status = "SUBMITTED"
             /\ rma_items'[r] \in ItemChoices(new.sale_id)
             /\ Len(rma_activity_log'[r]) = 1
             /\ rma_activity_log'[r][1].new_status = "SUBMITTED"]_vars

C25_Witness ==
  \E r1, r2 \in DOMAIN rma_requests :
    /\ r1 < r2
    /\ rma_requests[r1].sale_id = rma_requests[r2].sale_id
    /\ rma_requests[r1].status \in Terminal
    /\ rma_requests[r2].status = "SUBMITTED"
    /\ Len(rma_items[r2]) = 3

\* ---------------------------------------------------------------------------
\* C26: is_eligible, warranty_valid and purchase_date_valid are written only by
\* validate and never recomputed: they are unset until validation, a step changes them
\* only if it is a validate step on a SUBMITTED RMA, and once validated an RMA keeps
\* the values decided then through every later operation and every passage of time.
EligibilityFlags(rma) == <<rma.is_eligible, rma.warranty_valid, rma.purchase_date_valid>>

C26_FlagsFixedAtValidation ==
  /\ [](\A r \in DOMAIN rma_requests :
          rma_requests[r].validated_at = NULL =>
            EligibilityFlags(rma_requests[r]) = <<NullInt, NullInt, NullInt>>)
  /\ [][\A r \in DOMAIN rma_requests :
          /\ rma_requests[r].validated_at # NULL =>
               EligibilityFlags(rma_requests'[r]) = EligibilityFlags(rma_requests[r])
          /\ EligibilityFlags(rma_requests'[r]) # EligibilityFlags(rma_requests[r]) =>
               /\ rma_requests[r].status = "SUBMITTED"
               /\ \E approve \in BOOLEAN, cw \in BOOLEAN, cp \in BOOLEAN :
                    validate_rma_request(r, approve, cw, cp)]_vars

C26_Witness ==
  \E r \in DOMAIN rma_requests :
    /\ now = InitNow + TickDays
    /\ rma_requests[r].status = "COMPLETED"
    /\ rma_requests[r].warranty_valid = 1
    /\ ~_check_warranty(DB, rma_requests[r].sale_id, now)
    /\ rma_activity_log[r][Len(rma_activity_log[r])].action = "CLOSED"

ScenarioToInspected(db, sale_id, user_id, items, t) ==
  LET r == Len(db.rma_requests) + 1
      d1 == submit_rma_request_db(db, sale_id, user_id, items)
      d2 == validate_rma_request_db(d1, r, TRUE, TRUE, TRUE, t)
      d3 == update_shipping_info_db(d2, r, "UPS", "1Z1")
      d4 == mark_received_db(d3, r)
      d5 == start_inspection_db(d4, r)
      d6 == complete_inspection_db(d5, r, "DEFECTIVE")
  IN [rma_id |-> r,
      after |-> <<d1, d2, d3, d4, d5, d6>>,
      accepted |-> << submit_rma_request_ok(db, sale_id, user_id),
                      validate_rma_request_ok(d1, r)
                        /\ validate_new_status(d1, r, TRUE, TRUE, TRUE, t).returns,
                      update_shipping_info_ok(d2, r),
                      mark_received_ok(d3, r),
                      start_inspection_ok(d4, r),
                      complete_inspection_ok(d5, r, "DEFECTIVE") >>]

ScenarioA(db, sale_id, user_id, items, t) ==
  LET p == ScenarioToInspected(db, sale_id, user_id, items, t)
      r == p.rma_id
      d6 == p.after[6]
      d7 == make_disposition_db(d6, r, "REFUND")
      d8 == process_refund_db(d7, r, 1999)
      f == Len(d8.refunds)
      d9 == complete_refund_db(d8, f, TRUE)
  IN [rma_id |-> r, refund_id |-> f,
      after |-> p.after \o <<d7, d8, d9>>,
      accepted |-> p.accepted \o << make_disposition_ok(d6, r, "REFUND"),
                                    process_refund_ok(d7, r),
                                    complete_refund_ok(d8, f) >>]

ScenarioB(db, sale_id, user_id, items, t) ==
  LET p == ScenarioToInspected(db, sale_id, user_id, items, t)
      r == p.rma_id
      d6 == p.after[6]
      d7 == make_disposition_db(d6, r, "REJECT")
      d8 == process_rejection_db(d7, r)
  IN [rma_id |-> r,
      after |-> p.after \o <<d7, d8>>,
      accepted |-> p.accepted \o << make_disposition_ok(d6, r, "REJECT"),
                                    process_rejection_ok(d7, r) >>]

\* a COMPLETED in-warranty sale of the user with no active RMA, returned as one item
\* of quantity 2
ScenarioStart(s, u, items) ==
  /\ submit_rma_request_ok(DB, s, u)
  /\ _check_warranty(DB, s, now)
  /\ _check_purchase_date(DB, s, now)
  /\ Len(items) = 1
  /\ items[1].quantity = 2
  /\ items[1].product_id \in 1..Len(product)

\* C28: scenario A is a behaviour of the system: for a COMPLETED in-warranty sale with
\* one item of quantity 2, submit, validate(approve), update_shipping, mark_received,
\* start_inspection, complete_inspection(DEFECTIVE), make_disposition(REFUND),
\* process_refund, complete_refund(success) are each accepted, the RMA passes through
\* SUBMITTED, APPROVED, SHIPPING, RECEIVED, INSPECTING, INSPECTED, PROCESSING, a PENDING
\* refund exists after process_refund, and at the end the RMA is COMPLETED, the sale
\* REFUNDED and the stock of the product 2 higher.
C28_ScenarioA ==
  \A s \in 1..Len(sale), u \in Users : \A items \in ItemChoices(s) :
    ScenarioStart(s, u, items) =>
      LET a == ScenarioA(DB, s, u, items, now)
          r == a.rma_id
          final == a.after[9]
          pid == items[1].product_id
      IN /\ \A i \in 1..9 : a.accepted[i]
         /\ [i \in 1..9 |-> a.after[i].rma_requests[r].status] =
              <<"SUBMITTED", "APPROVED", "SHIPPING", "RECEIVED", "INSPECTING", "INSPECTED",
                "PROCESSING", "PROCESSING", "COMPLETED">>
         /\ a.after[2].rma_requests[r].rma_number # NoNumber
         /\ a.after[8].refunds[a.refund_id].status = "PENDING"
         /\ a.after[8].refunds[a.refund_id].amount_cents = 1999
         /\ final.refunds[a.refund_id].status = "COMPLETED"
         /\ final.sale[s].status = "REFUNDED"
         /\ final.product[pid].stock = product[pid].stock + 2
         /\ \A q \in (1..Len(product)) \ {pid} : final.product[q] = product[q]

C28_Witness ==
  \E r \in DOMAIN rma_requests :
    /\ status_trace[r] = <<"SUBMITTED", "APPROVED", "SHIPPING", "RECEIVED", "INSPECTING",
                           "INSPECTED", "PROCESSING", "PROCESSING", "COMPLETED">>
    /\ rma_items[r] = <<Item(1, 2)>>
    /\ rma_requests[r].inspection_result = "DEFECTIVE"
    /\ \E f \in DOMAIN refunds : refunds[f].rma_id = r /\ refunds[f].status = "COMPLETED"
    /\ sale[rma_requests[r].sale_id].status = "REFUNDED"
    /\ product[1].stock = DB0.product[1].stock + 2
    /\ DB = ScenarioA(DB0, 1, 1, <<Item(1, 2)>>, InitNow).after[9]

\* C29: scenario B is a behaviour of the system: after the same flow up to INSPECTED,
\* make_disposition(REJECT) is accepted and leaves the RMA in DISPOSITION,
\* process_rejection is accepted and moves it to COMPLETED, and every product's stock
\* and the sale's status are what they were before the RMA was submitted.
C29_ScenarioB ==
  \A s \in 1..Len(sale), u \in Users : \A items \in ItemChoices(s) :
    ScenarioStart(s, u, items) =>
      LET b == ScenarioB(DB, s, u, items, now)
          r == b.rma_id
          final == b.after[8]
      IN /\ \A i \in 1..8 : b.accepted[i]
         /\ [i \in 1..8 |-> b.after[i].rma_requests[r].status] =
              <<"SUBMITTED", "APPROVED", "SHIPPING", "RECEIVED", "INSPECTING", "INSPECTED",
                "DISPOSITION", "COMPLETED">>
         /\ b.after[7].rma_requests[r].disposition = "REJECT"
         /\ final.product = product
         /\ final.sale[s].status = sale[s].status
         /\ final.sale = sale
         /\ final.refunds = refunds

C29_Witness ==
  \E r \in DOMAIN rma_requests :
    /\ status_trace[r] = <<"SUBMITTED", "APPROVED", "SHIPPING", "RECEIVED", "INSPECTING",
                           "INSPECTED", "DISPOSITION", "COMPLETED">>
    /\ rma_requests[r].disposition = "REJECT"
    /\ rma_activity_log[r][7].action = "DISPOSITION_DECIDED"
    /\ \E i \in DOMAIN rma_activity_log[r] : rma_activity_log[r][i].action = "RETURN_REJECTED"
    /\ product = DB0.product
    /\ sale = DB0.sale
    /\ DB = ScenarioB(DB0, 1, 1, <<Item(1, 2)>>, InitNow).after[8]

\* ---------------------------------------------------------------------------
\* C30: update_shipping requires a non-empty carrier and a non-empty tracking number,
\* through the HTTP route and through RMAManager.update_shipping_info alike: a call
\* with either one empty fails and changes nothing, so no update_shipping step, by
\* either entry, records an empty carrier or an empty tracking number.
C30_ShippingFieldsRequired ==
  [][\A r \in DOMAIN rma_requests :
       Logged(r) =>
         \A c \in AnyCarrier, tn \in AnyTrackingNumber :
           (update_shipping_info(r, c, tn) \/ \E u \in Users : update_shipping(r, u, c, tn))
             => (c # "" /\ tn # "")]_vars

\* ---------------------------------------------------------------------------
\* The calls that address one RMA, as values: <<operation, rma_id, argument, refund_id>>.
\* complete_refund addresses the RMA through one of its refund rows.
OpsOn(db, r) ==
  {<<"validate_rma_request", r, a, 0>> : a \in {"approve", "approve_unchecked", "reject"}}
    \cup {<<o, r, "", 0>> : o \in {"update_shipping_info", "mark_received", "start_inspection",
                                   "complete_inspection", "process_refund",
                                   "process_replacement", "process_store_credit",
                                   "process_repair", "complete_repair", "process_rejection",
                                   "close_rma", "cancel_rma"}}
    \cup {<<"make_disposition", r, d, 0>> : d \in valid_dispositions}
    \cup {<<"complete_refund", r, a, f>> : a \in {"success", "failure"}, f \in RefundsOf(db, r)}

OpOk(db, o) ==
  LET r == o[2]
  IN CASE o[1] = "validate_rma_request" -> validate_rma_request_ok(db, r)
       [] o[1] = "update_shipping_info" -> update_shipping_info_ok(db, r)
       [] o[1] = "mark_received" -> mark_received_ok(db, r)
       [] o[1] = "start_inspection" -> start_inspection_ok(db, r)
       [] o[1] = "complete_inspection" -> complete_inspection_ok(db, r, "DEFECTIVE")
       [] o[1] = "make_disposition" -> make_disposition_ok(db, r, o[3])
       [] o[1] = "process_refund" -> process_refund_ok(db, r)
       [] o[1] = "complete_refund" -> complete_refund_ok(db, o[4])
       [] o[1] = "process_replacement" -> process_replacement_ok(db, r)
       [] o[1] = "process_store_credit" -> process_store_credit_ok(db, r)
       [] o[1] = "process_repair" -> process_repair_ok(db, r)
       [] o[1] = "complete_repair" -> complete_repair_ok(db, r)
       [] o[1] = "process_rejection" -> process_rejection_ok(db, r)
       [] o[1] = "close_rma" -> close_rma_ok(db, r)
       [] o[1] = "cancel_rma" -> cancel_rma_ok(db, r)

OpApply(db, o, t) ==
  LET r == o[2]
  IN CASE o[1] = "validate_rma_request" ->
            validate_rma_request_db(db, r, o[3] # "reject", o[3] # "approve_unchecked",
                                    o[3] # "approve_unchecked", t)
       [] o[1] = "update_shipping_info" -> update_shipping_info_db(db, r, "UPS", "1Z1")
       [] o[1] = "mark_received" -> mark_received_db(db, r)
       [] o[1] = "start_inspection" -> start_inspection_db(db, r)
       [] o[1] = "complete_inspection" -> complete_inspection_db(db, r, "DEFECTIVE")
       [] o[1] = "make_disposition" -> make_disposition_db(db, r, o[3])
       [] o[1] = "process_refund" -> process_refund_db(db, r, 1999)
       [] o[1] = "complete_refund" -> complete_refund_db(db, o[4], o[3] = "success")
       [] o[1] = "process_replacement" -> process_replacement_db(db, r, t)
       [] o[1] = "process_store_credit" -> process_store_credit_db(db, r, 1999)
       [] o[1] = "process_repair" -> process_repair_db(db, r)
       [] o[1] = "complete_repair" -> complete_repair_db(db, r)
       [] o[1] = "process_rejection" -> process_rejection_db(db, r)
       [] o[1] = "close_rma" -> close_rma_call(db, r, t)
       [] o[1] = "cancel_rma" -> cancel_rma_db(db, r)

\* what the store holds for one RMA: its row, items, ledger entries, notifications
\* and refund rows
RmaPart(db, r) ==
  [row |-> db.rma_requests[r], items |-> db.rma_items[r], log |-> db.rma_activity_log[r],
   notifications |-> db.notifications[r],
   refunds |-> [f \in RefundsOf(db, r) |-> db.refunds[f]]]

\* the same without the sequence number of the day that approval draws from the count
\* of all numbered RMAs
MaskNumber(n) == IF n = NoNumber THEN n ELSE <<n[1], 0>>

RmaPartButNumber(db, r) ==
  LET part == RmaPart(db, r)
  IN [part EXCEPT !.row.rma_number = MaskNumber(@),
                  !.notifications = [i \in DOMAIN @ |->
                                       [@[i] EXCEPT !.rma_number = MaskNumber(@)]]]

\* the calls on a that leave b's part alone, and b's calls that come out the same (as
\* compared by Part) whether or not a call on a went first
IndependentUnder(Part(_, _)) ==
  \A a \in DOMAIN rma_requests, b \in DOMAIN rma_requests :
    a # b =>
      \A oa \in {o \in OpsOn(DB, a) : OpOk(DB, o)} :
        LET after_a == OpApply(DB, oa, now)
        IN /\ RmaPart(after_a, b) = RmaPart(DB, b)
           /\ \A ob \in OpsOn(DB, b) :
                /\ OpOk(after_a, ob) = OpOk(DB, ob)
                /\ OpOk(DB, ob) =>
                     Part(OpApply(after_a, ob, now), b) = Part(OpApply(DB, ob, now), b)

RECURSIVE CompletedRequests(_, _)
CompletedRequests(metrics, D) ==
  IF D = {} THEN 0
  ELSE LET d == CHOOSE x \in D : TRUE
       IN metrics[d].completed_requests + CompletedRequests(metrics, D \ {d})

\* the RMAs whose status has been COMPLETED at some time
EverCompleted == {r \in DOMAIN rma_requests : "COMPLETED" \in Range(status_trace[r])}

\* C32: close_rma and the disposition-specific completion paths alike update the daily
\* metric row when they set an RMA to COMPLETED: completed_requests summed over all
\* dates equals the number of RMAs that have reached COMPLETED, each counted once.
C32_MetricsCountCompletions ==
  CompletedRequests(rma_metrics, DOMAIN rma_metrics) = Cardinality(EverCompleted)

\* ---------------------------------------------------------------------------
\* a ledger entry that warrants a status notification
Notifiable(e) ==
  /\ e.new_status # e.old_status
  /\ e.new_status \in {"SUBMITTED", "APPROVED", "REJECTED", "RECEIVED", "INSPECTING",
                        "INSPECTED", "DISPOSITION", "PROCESSING", "COMPLETED", "CANCELLED"}

Transitions(rows) == [i \in DOMAIN rows |-> <<rows[i].old_status, rows[i].new_status>>]

\* the rows a step appended to tab[r]; all of them when r is created by the step
Appended(tab, r) ==
  IF r \in DOMAIN tab THEN SubSeq(tab'[r], Len(tab[r]) + 1, Len(tab'[r])) ELSE tab'[r]

\* C33: a status notification for the owning user is created exactly when a ledger
\* entry is written whose new_status differs from its old_status and is one of
\* SUBMITTED, APPROVED, REJECTED, RECEIVED, INSPECTING, INSPECTED, DISPOSITION,
\* PROCESSING, COMPLETED, CANCELLED: the notifications of an RMA are, in order, the
\* transitions of such entries; each carries the disposition stored when it is written;
\* SHIPPING and CUSTOMER_NOTIFIED entries create none.
C33_NotificationPerNotifiableEntry ==
  /\ [](\A r \in DOMAIN rma_requests :
          /\ Transitions(notifications[r]) =
               Transitions(SelectSeq(rma_activity_log[r], Notifiable))
          /\ \A i \in DOMAIN notifications[r] :
               /\ notifications[r][i].user_id = rma_requests[r].user_id
               /\ notifications[r][i].new_status # "SHIPPING")
  /\ [][\A r \in DOMAIN rma_requests' :
          LET entries == Appended(rma_activity_log, r)
              created == Appended(notifications, r)
          IN /\ Len(created) = Len(SelectSeq(entries, Notifiable))
             /\ \A i \in DOMAIN created :
                  /\ created[i].disposition = rma_requests'[r].disposition
                  /\ created[i].rma_number = rma_requests'[r].rma_number
                  /\ created[i].user_id = rma_requests'[r].user_id]_vars

C33_Witness ==
  \E r \in DOMAIN rma_requests :
    /\ \E i \in DOMAIN rma_activity_log[r] : rma_activity_log[r][i].new_status = "SHIPPING"
    /\ \E i \in DOMAIN rma_activity_log[r] : rma_activity_log[r][i].action = "CUSTOMER_NOTIFIED"
    /\ Len(notifications[r]) = Len(rma_activity_log[r]) - 2
    /\ notifications[r][Len(notifications[r])].disposition = "STORE_CREDIT"
    /\ notifications[r][Len(notifications[r])].new_status = "COMPLETED"
    /\ \E i \in DOMAIN notifications[r] :
         notifications[r][i].new_status = "PROCESSING" /\ notifications[r][i].disposition = "STORE_CREDIT"

\* ---------------------------------------------------------------------------
\* C34: rma_number values are unique: in every reachable state no two RMAs share the
\* same non-null rma_number, also when two validate calls approving different RMAs on
\* the same day run interleaved on separate connections.
C34_RmaNumbersUnique ==
  \A r1 \in DOMAIN rma_requests, r2 \in DOMAIN rma_requests :
    (r1 # r2 /\ rma_requests[r1].rma_number # NoNumber) =>
      rma_requests[r1].rma_number # rma_requests[r2].rma_number

\* ---------------------------------------------------------------------------
\* C35: status and disposition stay consistent: the disposition is null while the
\* status is SUBMITTED, APPROVED, SHIPPING, RECEIVED, INSPECTING or INSPECTED; status
\* DISPOSITION implies disposition REPAIR or REJECT; status PROCESSING implies
\* disposition REFUND, REPLACEMENT, STORE_CREDIT or REPAIR; and once the status has
\* left INSPECTED and DISPOSITION the disposition never changes again.
C35_StatusDispositionConsistent ==
  /\ [](\A r \in DOMAIN rma_requests :
          LET rma == rma_requests[r]
          IN /\ rma.status \in {"SUBMITTED", "APPROVED", "SHIPPING", "RECEIVED", "INSPECTING",
                                 "INSPECTED"} => rma.disposition = NULL
             /\ rma.status = "DISPOSITION" => rma.disposition \in {"REPAIR", "REJECT"}
             /\ rma.status = "PROCESSING" =>
                  rma.disposition \in {"REFUND", "REPLACEMENT", "STORE_CREDIT", "REPAIR"})
  /\ [][\A r \in DOMAIN rma_requests :
          rma_requests[r].status \notin {"INSPECTED", "DISPOSITION"} =>
            rma_requests'[r].disposition = rma_requests[r].disposition]_vars

C35_Witness ==
  \E r \in DOMAIN rma_requests :
    /\ rma_requests[r].status = "PROCESSING"
    /\ rma_requests[r].disposition = "REPAIR"
    /\ "DISPOSITION" \in Range(status_trace[r])
    /\ rma_activity_log[r][Len(rma_activity_log[r])].action = "REPAIR_INITIATED"

\* ---------------------------------------------------------------------------
\* C36: a Refund's status only moves from PENDING to COMPLETED or from PENDING to
\* FAILED and is final afterwards: a new refund is PENDING, no step takes a COMPLETED
\* refund to FAILED or a FAILED refund to COMPLETED, and whenever a sale is REFUNDED
\* the Refund of its RMA is COMPLETED.
C36_RefundStatusFinal ==
  /\ [](\A s \in DOMAIN sale :
          sale[s].status = "REFUNDED" =>
            \E f \in DOMAIN refunds : refunds[f].sale_id = s /\ refunds[f].status = "COMPLETED")
  /\ [][\A f \in DOMAIN refunds' :
          IF f \in DOMAIN refunds
          THEN refunds'[f].status # refunds[f].status =>
                 /\ refunds[f].status = "PENDING"
                 /\ refunds'[f].status \in {"COMPLETED", "FAILED"}
          ELSE refunds'[f].status = "PENDING"]_vars

\* ---------------------------------------------------------------------------
\* C37: closed_at is consistent with the status: in every reachable state closed_at
\* is non-null if and only if the status is COMPLETED or CANCELLED.
C37_ClosedAtMatchesStatus ==
  \A r \in DOMAIN rma_requests :
    rma_requests[r].closed_at # NULL <=> rma_requests[r].status \in {"COMPLETED", "CANCELLED"}

\* ---------------------------------------------------------------------------
\* the ledger entries of an RMA that record a status
HasNewStatus(e) == e.new_status # NULL

StatusEntries(r) == SelectSeq(rma_activity_log[r], HasNewStatus)

\* C38: the ledger is an authoritative history of the status: in every reachable
\* state the new_status of the most recent entry of an RMA with a non-null new_status
\* is the RMA's current status, and of two consecutive such entries the new_status of
\* the earlier is the old_status of the later.
C38_LedgerIsStatusHistory ==
  \A r \in DOMAIN rma_requests :
    LET h == StatusEntries(r)
    IN /\ h # <<>> => h[Len(h)].new_status = rma_requests[r].status
       /\ \A i \in 1..(Len(h) - 1) : h[i].new_status = h[i + 1].old_status

\* ---------------------------------------------------------------------------
\* the threads that enter the wrapped function in a step
Invoked == {th \in Threads : thread[th].pc = "idle" /\ thread'[th].pc = "running"}

\* the threads whose call ends in a step with the given result
Ended(result) == {th \in Threads : thread'[th] # thread[th] /\ thread'[th] = [pc |-> "idle", result |-> result]}

\* CircuitBreakerOpenError is raised at the head of call, never out of the wrapped function
Rejected == {th \in Ended("CircuitBreakerOpenError") : thread[th].pc = "idle"}

WithinTimeout ==
  /\ breaker.state = OPEN
  /\ breaker.last_failure_time # None
  /\ clock - breaker.last_failure_time <= timeout_seconds

\* C39: while the breaker is CLOSED every call is let through to the wrapped function
\* and none is rejected; a failure that brings failure_count to failure_threshold
\* leaves the breaker OPEN, so a CLOSED breaker has counted fewer failures than the
\* threshold; and while the breaker is OPEN and at most timeout_seconds have passed
\* since the last failure, no call enters the wrapped function: a call made then ends
\* with CircuitBreakerOpenError and leaves the breaker as it was.
C39_BreakerOpensAndRejects ==
  /\ [](breaker.state = CLOSED => breaker.failure_count < failure_threshold)
  /\ [](breaker.state = OPEN => breaker.last_failure_time # None)
  /\ [][/\ ((breaker.state = CLOSED) =>
               (/\ Rejected = {}
                /\ \A th \in Threads :
                     ((thread[th].pc = "idle" /\ thread'[th] # thread[th]) => th \in Invoked)))
         /\ ((breaker'.failure_count > breaker.failure_count
                /\ breaker'.failure_count >= failure_threshold) => (breaker'.state = OPEN))
         /\ (WithinTimeout =>
               (/\ Invoked = {}
                /\ \A th \in Threads :
                     ((thread[th].pc = "idle" /\ thread'[th] # thread[th]) =>
                        (th \in Rejected /\ breaker' = breaker))))]_vars

\* three failures in a row have opened the breaker, and a call made exactly
\* timeout_seconds after the last of them was rejected
C39_Witness ==
  /\ breaker.state = OPEN
  /\ breaker.failure_count = failure_threshold
  /\ clock - breaker.last_failure_time = timeout_seconds
  /\ \E th \in Threads : thread[th] = [pc |-> "idle", result |-> "CircuitBreakerOpenError"]

\* ---------------------------------------------------------------------------
TimedOut ==
  /\ breaker.state = OPEN
  /\ breaker.last_failure_time # None
  /\ clock - breaker.last_failure_time > timeout_seconds

\* C40: recovery of a breaker with the decorator's default thresholds: a call made
\* when the breaker is OPEN and more than timeout_seconds have passed since the last
\* failure moves it to HALF_OPEN and enters the wrapped function, and a call that
\* returns successfully while the breaker is HALF_OPEN leaves it CLOSED with
\* failure_count 0.
C40_RecoveryAfterTimeout ==
  [][/\ (TimedOut =>
           \A th \in Threads :
             ((thread[th].pc = "idle" /\ thread'[th] # thread[th]) =>
                (th \in Invoked /\ breaker'.state = HALF_OPEN)))
     /\ ((breaker.state = HALF_OPEN /\ Ended("returned") # {}) =>
           (breaker'.state = CLOSED /\ breaker'.failure_count = 0))]_vars

====
